---- MODULE Spec2Model ----
(***************************************************************************)
(* A model of the occlusion lookup engine: the four immutable store        *)
(* variants (lib/src/store_*.rs), the SwappableStore reader/writer wrapper  *)
(* (lib/src/swappable.rs) and the reload scheduler with its FailureTracker  *)
(* (server/src/main.rs).                                                    *)
(*                                                                         *)
(* Four specifications share the module:                                    *)
(*   SpecStore  builds the four variants from one entry list and queries    *)
(*              them;                                                       *)
(*   SpecSwap   runs reader and swapper threads against a SwappableStore;   *)
(*   SpecSched  runs the reload scheduler loop;                             *)
(*   SpecLoader makes one call of a loader function.                        *)
(***************************************************************************)
EXTENDS Integers, Sequences, FiniteSets, TLC

VARIABLES
    \* ---- SpecStore: one build of each variant and one query against them
    entries,        \* the Vec<(Uuid, u8)> handed to the four constructors
    built,          \* [hashmap, vec, hybrid, fullhash]: each constructor's Result
    answer,         \* the last query and what each variant answered
    first_answer,   \* what the variants answered before the entries were reordered
    \* ---- SpecSwap: the shared Arc<RwLock<ActiveStore>> cells and the threads
    inner,          \* cell -> the ActiveStore the RwLock protects
    readers,        \* cell -> the threads holding a read guard
    writer,         \* cell -> the threads holding the write guard
    handle,         \* thread -> the cell its SwappableStore handle points to
    tpc,            \* thread -> where it is in its current call
    call,           \* thread -> the call in progress and its partial result
    installed,      \* thread -> the stores its cell held while it had its guard
    latest,         \* the store handed to the most recent swap that returned
    \* ---- SpecSched: the reload scheduler task
    pc,             \* the scheduler's position in its loop
    failures,       \* the FailureTracker
    metadata,       \* reload_state.metadata
    old_metadata,   \* the scheduler's snapshot of it
    store,          \* the ActiveStore installed in the scheduler's SwappableStore
    slept,          \* the sleep the scheduler entered when its last load attempt ended
    waited,         \* the sleeps completed since the last load attempt ended
    attempt,        \* what the last load attempt found and did
    exit_code,      \* the process's exit status once it has exited
    overflow_checks, \* whether the build panics on arithmetic overflow
    \* ---- SpecLoader: one call of a loader function
    loader_call,    \* the function called, its arguments and what it met
    loader_result,  \* what the call returned
    \* ---- SpecServer: the request handlers and the scheduler on the shared locks
    srv_inner,      \* the ActiveStore inside the SwappableStore's RwLock
    store_guards,   \* [readers, writer]: the threads holding a guard on it
    srv_metadata,   \* the SourceMetadata inside reload_state.metadata
    metadata_guards, \* [readers, writer]: the threads holding a guard on it
    spc,            \* thread -> where it is in its handler or loop
    local,          \* thread -> its local variables
    \* ---- SpecReload: the scheduler reloading from a file that changes under it
    source_file,    \* the file the DataSource::File names, as it is on disk
    stat_seen,      \* the file as the running load found it at its metadata read
    checked,        \* the mtime the last finished load attempt read
    built_from,     \* the mtime of the file version the installed store was parsed from
    \* ---- SpecBuilder: one StoreBuilder in one build of the library
    features,       \* the cargo features the library is compiled with
    builder,        \* the StoreBuilder
    builder_result  \* what its load_from_csv returned

storeVars == <<entries, built, answer, first_answer>>
swapVars == <<inner, readers, writer, handle, tpc, call, installed, latest>>
schedVars == <<pc, failures, metadata, old_metadata, store, slept, waited, attempt,
               exit_code, overflow_checks>>
loaderVars == <<loader_call, loader_result>>
serverVars == <<srv_inner, store_guards, srv_metadata, metadata_guards, spc, local>>
reloadVars == <<source_file, stat_seen, checked, built_from>>
builderVars == <<features, builder, builder_result>>
vars == <<storeVars, swapVars, schedVars, loaderVars, serverVars, reloadVars,
          builderVars>>

(***************************************************************************)
(* Bounds and program constants.                                           *)
(***************************************************************************)
MaxUuid == 3        \* UUIDs are Uuid::from_u128(1) .. Uuid::from_u128(MaxUuid)
MaxLen == 3         \* longest entry list handed to a constructor
MaxLevel == 1       \* levels 0..MaxLevel, and the largest u8, are used
MaxBatchLen == 2    \* longest &[Uuid] handed to a variant's check_batch
MaxDupLen == 4      \* longest entry list with duplicates handed to a constructor
U8_MAX == 255

Uuids == 1..MaxUuid
Levels == (0..MaxLevel) \cup {U8_MAX}
Masks == (0..MaxLevel) \cup {U8_MAX - 1, U8_MAX}
AllLevels == 0..U8_MAX
Entries == Uuids \X Levels

RECURSIVE SeqsUpTo(_, _)
SeqsUpTo(S, n) ==
    IF n = 0 THEN {<<>>}
    ELSE LET shorter == SeqsUpTo(S, n - 1)
         IN  shorter \cup {Append(s, e) : s \in {t \in shorter : Len(t) = n - 1}, e \in S}

EntryLists == SeqsUpTo(Entries, MaxLen)
UuidBatches == SeqsUpTo(Uuids, MaxBatchLen)

\* Entry lists long enough to repeat two UUIDs, over level 0 and one higher
\* level.
DupLists == SeqsUpTo(Uuids \X {0, MaxLevel}, MaxDupLen)

\* Option<T>: None is the empty sequence, Some(x) the sequence holding x.
None == <<>>
Some(x) == <<x>>

\* Result<Store, String>: Ok(store) or Err("Duplicate UUID found: <uuid>").
Ok(s) == [ok |-> TRUE, store |-> s]
Err(uuid) == [ok |-> FALSE, dup |-> uuid]

(***************************************************************************)
(* HashMapStore (store_hashmap.rs): one HashMap<Uuid, u8>.                  *)
(***************************************************************************)
RECURSIVE HashMapStore_insert_all(_, _, _)
HashMapStore_insert_all(es, i, map) ==
    IF i > Len(es) THEN Ok([map |-> map])
    ELSE LET uuid == es[i][1]
             level == es[i][2]
         IN  IF uuid \in DOMAIN map          \* map.insert(..).is_some()
             THEN Err(uuid)
             ELSE HashMapStore_insert_all(es, i + 1, map @@ (uuid :> level))

HashMapStore_new(es) == HashMapStore_insert_all(es, 1, <<>>)

HashMapStore_get_visibility(s, uuid) ==
    IF uuid \in DOMAIN s.map THEN Some(s.map[uuid]) ELSE None

\* A comparison that would be strict: level < mask.
HashMapStore_is_visible_strict(s, uuid, mask) ==
    IF uuid \in DOMAIN s.map THEN s.map[uuid] < mask ELSE FALSE

HashMapStore_is_visible(s, uuid, mask) ==
    IF uuid \in DOMAIN s.map THEN s.map[uuid] <= mask ELSE FALSE

HashMapStore_check_batch(s, uuids, mask) ==
    [i \in 1..Len(uuids) |-> HashMapStore_is_visible(s, uuids[i], mask)]

HashMapStore_len(s) == Cardinality(DOMAIN s.map)

HashMapStore_is_empty(s) == DOMAIN s.map = {}

HashMapStore_visibility_distribution(s) ==
    LET used == {s.map[u] : u \in DOMAIN s.map}
    IN  [l \in used |-> Cardinality({u \in DOMAIN s.map : s.map[u] = l})]

(***************************************************************************)
(* Sorting and searching a Vec<(Uuid, u8)> by UUID, as VecStore and         *)
(* HybridAuthStore do.                                                      *)
(***************************************************************************)
RECURSIVE InsertByUuid(_, _)
InsertByUuid(sorted, e) ==
    IF sorted = <<>> THEN <<e>>
    ELSE IF e[1] < Head(sorted)[1] THEN <<e>> \o sorted
    ELSE <<Head(sorted)>> \o InsertByUuid(Tail(sorted), e)

\* The entries left in the order they were given in.
sort_skipped(es) == es

\* entries.sort_unstable_by_key(|(uuid, _)| *uuid): entries with equal UUIDs end
\* up adjacent, in an order the constructors never look at.
RECURSIVE sort_unstable_by_key(_)
sort_unstable_by_key(es) ==
    IF es = <<>> THEN <<>>
    ELSE InsertByUuid(sort_unstable_by_key(Tail(es)), Head(es))

\* for window in v.windows(2) { if window[0].0 == window[1].0 { return Err } }
\* The least i whose neighbours share a UUID, 0 when there is none.
FirstEqualWindow(v) ==
    LET hits == {i \in 1..(Len(v) - 1) : v[i][1] = v[i + 1][1]}
    IN  IF hits = {} THEN 0 ELSE CHOOSE i \in hits : \A j \in hits : i <= j

\* v.binary_search_by_key(uuid, |(u, _)| *u): over the half-open range
\* [left, right) of 0-based indices; the result is 1-based, 0 when not found.
RECURSIVE binary_search_by_key(_, _, _, _)
binary_search_by_key(v, uuid, left, right) ==
    IF left >= right THEN 0
    ELSE LET mid == left + ((right - left) \div 2)
             key == v[mid + 1][1]
         IN  IF key = uuid THEN mid + 1
             ELSE IF key < uuid THEN binary_search_by_key(v, uuid, mid + 1, right)
             ELSE binary_search_by_key(v, uuid, left, mid)

(***************************************************************************)
(* VecStore (store_vecstore.rs): the entries sorted by UUID.                *)
(***************************************************************************)
VecStore_new(es) ==
    LET sorted == sort_unstable_by_key(es)
        w == FirstEqualWindow(sorted)
    IN  IF w # 0 THEN Err(sorted[w][1]) ELSE Ok([entries |-> sorted])

VecStore_get_visibility(s, uuid) ==
    LET idx == binary_search_by_key(s.entries, uuid, 0, Len(s.entries))
    IN  IF idx = 0 THEN None ELSE Some(s.entries[idx][2])

VecStore_is_visible(s, uuid, mask) ==
    LET v == VecStore_get_visibility(s, uuid)
    IN  IF v = None THEN FALSE ELSE v[1] <= mask

VecStore_check_batch(s, uuids, mask) ==
    [i \in 1..Len(uuids) |-> VecStore_is_visible(s, uuids[i], mask)]

VecStore_len(s) == Len(s.entries)

VecStore_is_empty(s) == s.entries = <<>>

\* for (_, level) in entries { *dist.entry(*level).or_insert(0) += 1; }
RECURSIVE count_levels(_, _, _)
count_levels(v, i, dist) ==
    IF i > Len(v) THEN dist
    ELSE LET level == v[i][2]
         IN  count_levels(v, i + 1,
                 IF level \in DOMAIN dist
                 THEN [dist EXCEPT ![level] = @ + 1]
                 ELSE dist @@ (level :> 1))

VecStore_visibility_distribution(s) == count_levels(s.entries, 1, <<>>)

(***************************************************************************)
(* HybridAuthStore (store_hybrid.rs): a HashSet for level 0 and a sorted    *)
(* Vec for the levels above.                                                *)
(***************************************************************************)
RECURSIVE HybridAuthStore_partition(_, _, _, _)
HybridAuthStore_partition(es, i, level_0, higher_levels) ==
    IF i > Len(es) THEN [ok |-> TRUE, level_0 |-> level_0, higher_levels |-> higher_levels]
    ELSE LET uuid == es[i][1]
             level == es[i][2]
         IN  IF level = 0
             THEN IF uuid \in level_0       \* !level_0.insert(uuid)
                  THEN Err(uuid)
                  ELSE HybridAuthStore_partition(es, i + 1, level_0 \cup {uuid},
                                                 higher_levels)
             ELSE HybridAuthStore_partition(es, i + 1, level_0,
                                            Append(higher_levels, es[i]))

\* A constructor that would not compare the two partitions.
HybridAuthStore_in_both_unchecked(level_0, higher_levels) == {}

\* for (uuid, _) in &higher_levels { if level_0.contains(uuid) { return Err } }
\* The indices of higher_levels whose UUID is in level_0 as well.
HybridAuthStore_in_both(level_0, higher_levels) ==
    {i \in 1..Len(higher_levels) : higher_levels[i][1] \in level_0}

HybridAuthStore_new(es) ==
    LET p == HybridAuthStore_partition(es, 1, {}, <<>>)
    IN  IF ~p.ok THEN p
        ELSE LET sorted == sort_unstable_by_key(p.higher_levels)
                 w == FirstEqualWindow(sorted)
                 both == HybridAuthStore_in_both(p.level_0, sorted)
             IN  IF w # 0 THEN Err(sorted[w][1])
                 ELSE IF both # {}
                 THEN Err(sorted[CHOOSE i \in both : \A j \in both : i <= j][1])
                 ELSE Ok([level_0 |-> p.level_0, higher_levels |-> sorted])

HybridAuthStore_is_visible(s, uuid, mask) ==
    IF uuid \in s.level_0 THEN TRUE
    ELSE IF mask = 0 THEN FALSE
    ELSE LET idx == binary_search_by_key(s.higher_levels, uuid, 0, Len(s.higher_levels))
         IN  IF idx = 0 THEN FALSE ELSE s.higher_levels[idx][2] <= mask

HybridAuthStore_get_visibility(s, uuid) ==
    IF uuid \in s.level_0 THEN Some(0)
    ELSE LET idx == binary_search_by_key(s.higher_levels, uuid, 0, Len(s.higher_levels))
         IN  IF idx = 0 THEN None ELSE Some(s.higher_levels[idx][2])

HybridAuthStore_check_batch(s, uuids, mask) ==
    [i \in 1..Len(uuids) |-> HybridAuthStore_is_visible(s, uuids[i], mask)]

\* A length that would leave out the level-0 set.
HybridAuthStore_len_higher_only(s) == Len(s.higher_levels)

HybridAuthStore_len(s) == Cardinality(s.level_0) + Len(s.higher_levels)

HybridAuthStore_is_empty(s) == s.level_0 = {} /\ s.higher_levels = <<>>

\* A distribution that would insert level 0 even when level_0 is empty.
HybridAuthStore_visibility_distribution_with_zero(s) ==
    count_levels(s.higher_levels, 1, (0 :> Cardinality(s.level_0)))

\* if !self.level_0.is_empty() { dist.insert(0, self.level_0.len()); }
\* for (_, level) in &self.higher_levels { *dist.entry(*level).or_insert(0) += 1; }
HybridAuthStore_visibility_distribution(s) ==
    count_levels(s.higher_levels, 1,
                 IF s.level_0 # {} THEN (0 :> Cardinality(s.level_0)) ELSE <<>>)

(***************************************************************************)
(* FullHashStore (store_fullhash.rs): one HashSet per level 0..255.         *)
(***************************************************************************)
RECURSIVE FullHashStore_insert_all(_, _, _, _)
FullHashStore_insert_all(es, i, by_level, all_uuids) ==
    IF i > Len(es) THEN Ok([by_level |-> by_level])
    ELSE LET uuid == es[i][1]
             level == es[i][2]
         IN  IF uuid \in all_uuids          \* !all_uuids.insert(uuid)
             THEN Err(uuid)
             ELSE FullHashStore_insert_all(es, i + 1,
                      [by_level EXCEPT ![level] = @ \cup {uuid}],
                      all_uuids \cup {uuid})

FullHashStore_new(es) ==
    FullHashStore_insert_all(es, 1, [l \in AllLevels |-> {}], {})

\* A scan that would stop one level short: 0..mask.
FullHashStore_is_visible_exclusive(s, uuid, mask) ==
    \E level \in 0..(mask - 1) : uuid \in s.by_level[level]

\* for level in 0..=mask { if self.by_level[level].contains(uuid) { return true } }
FullHashStore_is_visible(s, uuid, mask) ==
    \E level \in 0..mask : uuid \in s.by_level[level]

\* for (level, set) in by_level.iter().enumerate(): the first level holding uuid.
FullHashStore_get_visibility(s, uuid) ==
    LET hits == {level \in AllLevels : uuid \in s.by_level[level]}
    IN  IF hits = {} THEN None
        ELSE Some(CHOOSE level \in hits : \A other \in hits : level <= other)

FullHashStore_check_batch(s, uuids, mask) ==
    [i \in 1..Len(uuids) |-> FullHashStore_is_visible(s, uuids[i], mask)]

\* self.by_level.iter().map(|set| set.len()).sum(): the sum of the 256 set
\* sizes is the size of their disjoint union, each member tagged by its level.
FullHashStore_len(s) ==
    Cardinality(UNION {{<<level, uuid>> : uuid \in s.by_level[level]} :
                       level \in AllLevels})

FullHashStore_is_empty(s) == \A level \in AllLevels : s.by_level[level] = {}

FullHashStore_visibility_distribution(s) ==
    [level \in {l \in AllLevels : s.by_level[l] # {}} |->
        Cardinality(s.by_level[level])]

(***************************************************************************)
(* SpecStore: the four constructors applied to one entry list, then one     *)
(* Store operation asked of every variant that was built.                   *)
(***************************************************************************)
NotBuilt == [done |-> FALSE]
NoAnswer == [asked |-> FALSE, op |-> "none"]
NoLoaderCall == [op |-> "none"]

BuildAll(es) ==
    [done |-> TRUE,
     hashmap |-> HashMapStore_new(es),
     vec |-> VecStore_new(es),
     hybrid |-> HybridAuthStore_new(es),
     fullhash |-> FullHashStore_new(es)]

\* The caller assembles its Vec<(Uuid, u8)> one entry at a time.
Push(e) ==
    /\ ~built.done
    /\ Len(entries) < MaxLen
    /\ entries' = Append(entries, e)
    /\ UNCHANGED <<built, answer, first_answer>>
    /\ UNCHANGED <<swapVars, schedVars, loaderVars, serverVars, reloadVars, builderVars>>

\* S::new(entries) for each of the four variants.
Build ==
    /\ ~built.done
    /\ built' = BuildAll(entries)
    /\ UNCHANGED <<entries, answer, first_answer>>
    /\ UNCHANGED <<swapVars, schedVars, loaderVars, serverVars, reloadVars, builderVars>>

AllBuilt ==
    /\ built.done
    /\ built.hashmap.ok /\ built.vec.ok /\ built.hybrid.ok /\ built.fullhash.ok

\* store.is_visible(&uuid, mask) on each variant built in b, for every mask in
\* Masks.
is_visible_each(b, uuid) ==
    [asked |-> TRUE, op |-> "is_visible", uuid |-> uuid,
     hashmap |-> [m \in Masks |->
         HashMapStore_is_visible(b.hashmap.store, uuid, m)],
     vec |-> [m \in Masks |->
         VecStore_is_visible(b.vec.store, uuid, m)],
     hybrid |-> [m \in Masks |->
         HybridAuthStore_is_visible(b.hybrid.store, uuid, m)],
     fullhash |-> [m \in Masks |->
         FullHashStore_is_visible(b.fullhash.store, uuid, m)]]

Query(uuid) ==
    /\ AllBuilt
    /\ ~answer.asked
    /\ answer' = is_visible_each(built, uuid)
    /\ UNCHANGED <<entries, built, first_answer>>
    /\ UNCHANGED <<swapVars, schedVars, loaderVars, serverVars, reloadVars, builderVars>>

\* store.get_visibility(&uuid) on each variant.
GetVisibility(uuid) ==
    /\ AllBuilt
    /\ ~answer.asked
    /\ answer' = [asked |-> TRUE, op |-> "get_visibility", uuid |-> uuid,
                  hashmap |-> HashMapStore_get_visibility(built.hashmap.store, uuid),
                  vec |-> VecStore_get_visibility(built.vec.store, uuid),
                  hybrid |-> HybridAuthStore_get_visibility(built.hybrid.store, uuid),
                  fullhash |-> FullHashStore_get_visibility(built.fullhash.store, uuid)]
    /\ UNCHANGED <<entries, built, first_answer>>
    /\ UNCHANGED <<swapVars, schedVars, loaderVars, serverVars, reloadVars, builderVars>>

\* store.check_batch(&uuids, mask) on each variant, for every mask in Masks.
\* Each implementation is declared fn check_batch(..) -> Vec<bool>.
CheckBatch(uuids) ==
    /\ AllBuilt
    /\ ~answer.asked
    /\ answer' = [asked |-> TRUE, op |-> "check_batch", uuids |-> uuids,
                  returns |-> "Vec<bool>",
                  hashmap |-> [m \in Masks |->
                      HashMapStore_check_batch(built.hashmap.store, uuids, m)],
                  vec |-> [m \in Masks |->
                      VecStore_check_batch(built.vec.store, uuids, m)],
                  hybrid |-> [m \in Masks |->
                      HybridAuthStore_check_batch(built.hybrid.store, uuids, m)],
                  fullhash |-> [m \in Masks |->
                      FullHashStore_check_batch(built.fullhash.store, uuids, m)]]
    /\ UNCHANGED <<entries, built, first_answer>>
    /\ UNCHANGED <<swapVars, schedVars, loaderVars, serverVars, reloadVars, builderVars>>

\* store.len(), store.is_empty() and store.visibility_distribution() on each
\* variant built in b.
stats_each(b) ==
    [asked |-> TRUE, op |-> "stats",
     hashmap |->
         [len |-> HashMapStore_len(b.hashmap.store),
          is_empty |-> HashMapStore_is_empty(b.hashmap.store),
          dist |-> HashMapStore_visibility_distribution(b.hashmap.store)],
     vec |->
         [len |-> VecStore_len(b.vec.store),
          is_empty |-> VecStore_is_empty(b.vec.store),
          dist |-> VecStore_visibility_distribution(b.vec.store)],
     hybrid |->
         [len |-> HybridAuthStore_len(b.hybrid.store),
          is_empty |-> HybridAuthStore_is_empty(b.hybrid.store),
          dist |-> HybridAuthStore_visibility_distribution(b.hybrid.store)],
     fullhash |->
         [len |-> FullHashStore_len(b.fullhash.store),
          is_empty |-> FullHashStore_is_empty(b.fullhash.store),
          dist |-> FullHashStore_visibility_distribution(b.fullhash.store)]]

Stats ==
    /\ AllBuilt
    /\ ~answer.asked
    /\ answer' = stats_each(built)
    /\ UNCHANGED <<entries, built, first_answer>>
    /\ UNCHANGED <<swapVars, schedVars, loaderVars, serverVars, reloadVars, builderVars>>

\* The entries with positions i and i + 1 exchanged.
swap_adjacent(es, i) ==
    [k \in 1..Len(es) |->
        IF k = i THEN es[i + 1] ELSE IF k = i + 1 THEN es[i] ELSE es[k]]

\* The same entries are handed to the four constructors in another order (two
\* neighbours exchanged; every permutation is a chain of such steps) and the
\* query answered before is asked again of the stores built from them.  The
\* answer of the first order is kept for comparison.
Reorder(i) ==
    /\ AllBuilt
    /\ answer.asked
    /\ answer.op \in {"is_visible", "stats"}
    /\ i < Len(entries)
    /\ entries' = swap_adjacent(entries, i)
    /\ built' = BuildAll(entries')
    /\ answer' = IF answer.op = "is_visible"
                 THEN is_visible_each(built', answer.uuid)
                 ELSE stats_each(built')
    /\ first_answer' = IF first_answer.asked THEN first_answer ELSE answer
    /\ UNCHANGED <<swapVars, schedVars, loaderVars, serverVars, reloadVars, builderVars>>

NextStore ==
    \/ \E e \in Entries : Push(e)
    \/ Build
    \/ \E uuid \in Uuids : Query(uuid)
    \/ \E uuid \in Uuids : GetVisibility(uuid)
    \/ \E uuids \in UuidBatches : CheckBatch(uuids)
    \/ Stats
    \/ \E i \in 1..(MaxLen - 1) : Reorder(i)

(***************************************************************************)
(* ActiveStore and build_store (lib.rs): with no feature selected the       *)
(* active variant is HashMapStore.                                          *)
(***************************************************************************)
build_store(es) == HashMapStore_new(es)

(***************************************************************************)
(* SwappableStore (swappable.rs): Arc<RwLock<ActiveStore>>.                 *)
(*                                                                         *)
(* inner is the sequence of RwLock cells allocated so far; cell 1 is the    *)
(* one SwappableStore::new made. A read call takes the read guard, computes *)
(* its answer from the guarded store (check_batch one UUID per step) and    *)
(* drops the guard when it returns. swap takes the write guard, assigns the *)
(* new store over the old one, which drops the old one, and releases.       *)
(***************************************************************************)
NumReaders == 2
NumSwappers == 1
MaxBatch == 2

Readers == 1..NumReaders
Swappers == (NumReaders + 1)..(NumReaders + NumSwappers)
Threads == Readers \cup Swappers

\* The entry list of the store handed to new(), and those of the stores handed
\* to swap().
InitialList == <<<<1, 0>>, <<2, 1>>>>
SwapLists == {<<>>, InitialList, <<<<1, 1>>, <<2, 0>>>>}
SwapStores == {build_store(es).store : es \in SwapLists}
SwapUuids == {1, 2}
SwapMasks == {0}
\* Batches of 0..MaxBatch UUIDs: <<>>, <<1>>, <<1, 2>>, <<1, 2, 1>>, ...
Batches == {[i \in 1..n |-> ((i - 1) % 2) + 1] : n \in 0..MaxBatch}

NoCall == [op |-> "none"]
Pending(c) == c @@ [acc |-> <<>>, done |-> FALSE]
ReadCalls ==
    {[op |-> "is_visible", uuid |-> u, mask |-> m] : u \in SwapUuids, m \in SwapMasks}
    \cup {[op |-> "get_visibility", uuid |-> u] : u \in SwapUuids}
    \cup {[op |-> "check_batch", uuids |-> b, mask |-> m] : b \in Batches, m \in SwapMasks}
    \cup {[op |-> "len"], [op |-> "is_empty"], [op |-> "visibility_distribution"]}

\* What the call c returns when all of it is computed against the store s.
Delegate(c, s) ==
    CASE c.op = "is_visible" -> HashMapStore_is_visible(s, c.uuid, c.mask)
      [] c.op = "get_visibility" -> HashMapStore_get_visibility(s, c.uuid)
      [] c.op = "check_batch" -> HashMapStore_check_batch(s, c.uuids, c.mask)
      [] c.op = "len" -> HashMapStore_len(s)
      [] c.op = "is_empty" -> HashMapStore_is_empty(s)
      [] c.op = "visibility_distribution" -> HashMapStore_visibility_distribution(s)

\* The value a finished call hands back.
Returned(c) == IF c.op = "check_batch" THEN c.acc ELSE c.acc[1]

\* A clone that would copy the lock and its store into a cell of its own.
CloneTargetDeep(c) == Len(inner) + 1

\* #[derive(Clone)]: the clone holds Arc::clone(&self.inner), the same cell.
CloneTarget(c) == c

\* A read that would take no lock at all.
CanReadAlways(c) == TRUE

\* self.inner.read(): granted while no thread holds the write guard.
CanRead(c) == writer[c] = {}

\* A write guard that would exclude other writers only.
CanWriteOverReaders(c) == writer[c] = {}

\* self.inner.write(): granted while no thread holds any guard.
CanWrite(c) == writer[c] = {} /\ readers[c] = {}

\* store.clone(): every thread works through its own clone of the handle that
\* SwappableStore::new returned.
Clone(t) ==
    /\ tpc[t] = "start"
    /\ LET c == CloneTarget(1)
       IN  /\ handle' = [handle EXCEPT ![t] = c]
           /\ IF c > Len(inner)
              THEN /\ inner' = Append(inner, inner[1])
                   /\ readers' = Append(readers, {})
                   /\ writer' = Append(writer, {})
              ELSE UNCHANGED <<inner, readers, writer>>
    /\ tpc' = [tpc EXCEPT ![t] = "idle"]
    /\ UNCHANGED <<call, installed, latest>>
    /\ UNCHANGED <<storeVars, schedVars, loaderVars, serverVars, reloadVars, builderVars>>

\* let guard = self.inner.read().expect("RwLock poisoned");
ReadAcquire(t, c) ==
    /\ t \in Readers
    /\ tpc[t] = "idle"
    /\ CanRead(handle[t])
    /\ readers' = [readers EXCEPT ![handle[t]] = @ \cup {t}]
    /\ tpc' = [tpc EXCEPT ![t] = "reading"]
    /\ call' = [call EXCEPT ![t] = Pending(c) @@ [latest |-> latest]]
    /\ installed' = [installed EXCEPT ![t] = <<inner[handle[t]]>>]
    /\ UNCHANGED <<inner, writer, handle, latest>>
    /\ UNCHANGED <<storeVars, schedVars, loaderVars, serverVars, reloadVars, builderVars>>

\* guard.<op>(..): one read of the guarded store; check_batch maps is_visible
\* over its UUIDs, one per step.
ReadStep(t) ==
    /\ tpc[t] = "reading"
    /\ ~call[t].done
    /\ LET c == call[t]
           s == inner[handle[t]]
       IN  call' = [call EXCEPT ![t] =
               IF c.op = "check_batch"
               THEN IF Len(c.acc) < Len(c.uuids)
                    THEN [c EXCEPT !.acc = Append(@, HashMapStore_is_visible(
                                               s, c.uuids[Len(c.acc) + 1], c.mask)),
                                   !.done = (Len(c.acc) + 1 = Len(c.uuids))]
                    ELSE [c EXCEPT !.done = TRUE]
               ELSE [c EXCEPT !.acc = <<Delegate(c, s)>>, !.done = TRUE]]
    /\ UNCHANGED <<inner, readers, writer, handle, tpc, installed, latest>>
    /\ UNCHANGED <<storeVars, schedVars, loaderVars, serverVars, reloadVars, builderVars>>

\* The call returns and its guard goes out of scope.
ReadReturn(t) ==
    /\ tpc[t] = "reading"
    /\ call[t].done
    /\ readers' = [readers EXCEPT ![handle[t]] = @ \ {t}]
    /\ tpc' = [tpc EXCEPT ![t] = "idle"]
    /\ call' = [call EXCEPT ![t] = NoCall]
    /\ installed' = [installed EXCEPT ![t] = <<>>]
    /\ UNCHANGED <<inner, writer, handle, latest>>
    /\ UNCHANGED <<storeVars, schedVars, loaderVars, serverVars, reloadVars, builderVars>>

\* store.swap(new_store) is called.
SwapCall(t, new_store) ==
    /\ t \in Swappers
    /\ tpc[t] = "idle"
    /\ tpc' = [tpc EXCEPT ![t] = "swap_wait"]
    /\ call' = [call EXCEPT ![t] = [op |-> "swap", new_store |-> new_store]]
    /\ UNCHANGED <<inner, readers, writer, handle, installed, latest>>
    /\ UNCHANGED <<storeVars, schedVars, loaderVars, serverVars, reloadVars, builderVars>>

\* let mut guard = self.inner.write().expect("RwLock poisoned");
SwapAcquire(t) ==
    /\ tpc[t] = "swap_wait"
    /\ CanWrite(handle[t])
    /\ writer' = [writer EXCEPT ![handle[t]] = {t}]
    /\ tpc' = [tpc EXCEPT ![t] = "swap_locked"]
    /\ UNCHANGED <<inner, readers, handle, call, installed, latest>>
    /\ UNCHANGED <<storeVars, schedVars, loaderVars, serverVars, reloadVars, builderVars>>

\* *guard = new_store; the store that was there is dropped.
SwapAssign(t) ==
    /\ tpc[t] = "swap_locked"
    /\ inner' = [inner EXCEPT ![handle[t]] = call[t].new_store]
    /\ installed' = [r \in Threads |->
           IF r \in readers[handle[t]]
           THEN Append(installed[r], call[t].new_store)
           ELSE installed[r]]
    /\ tpc' = [tpc EXCEPT ![t] = "swap_assigned"]
    /\ UNCHANGED <<readers, writer, handle, call, latest>>
    /\ UNCHANGED <<storeVars, schedVars, loaderVars, serverVars, reloadVars, builderVars>>

\* swap returns and the write guard goes out of scope.
SwapReturn(t) ==
    /\ tpc[t] = "swap_assigned"
    /\ writer' = [writer EXCEPT ![handle[t]] = @ \ {t}]
    /\ latest' = call[t].new_store
    /\ tpc' = [tpc EXCEPT ![t] = "idle"]
    /\ call' = [call EXCEPT ![t] = NoCall]
    /\ UNCHANGED <<inner, readers, handle, installed>>
    /\ UNCHANGED <<storeVars, schedVars, loaderVars, serverVars, reloadVars, builderVars>>

NextSwap ==
    \/ \E t \in Threads : Clone(t)
    \/ \E t \in Readers, c \in ReadCalls : ReadAcquire(t, c)
    \/ \E t \in Readers : ReadStep(t)
    \/ \E t \in Readers : ReadReturn(t)
    \/ \E t \in Swappers, s \in SwapStores : SwapCall(t, s)
    \/ \E t \in Swappers : SwapAcquire(t)
    \/ \E t \in Swappers : SwapAssign(t)
    \/ \E t \in Swappers : SwapReturn(t)

(***************************************************************************)
(* FailureTracker (main.rs).                                                *)
(*                                                                         *)
(* A u64 is kept as the set of its one-bits, so that the shift keeps its    *)
(* width: a bit shifted past bit 63 is lost.                                *)
(***************************************************************************)
INITIAL_BACKOFF_SECS == 5
MAX_BACKOFF_SECS == 300
U64_BITS == 64

RECURSIVE BitsOf(_, _)
BitsOf(n, b) ==
    IF n = 0 THEN {}
    ELSE (IF n % 2 = 1 THEN {b} ELSE {}) \cup BitsOf(n \div 2, b + 1)

RECURSIVE ValueOf(_)
ValueOf(bits) ==
    IF bits = {} THEN 0
    ELSE LET b == CHOOSE x \in bits : TRUE IN 2^b + ValueOf(bits \ {b})

\* 2^31 - 1, the largest value the model's integers hold, stands for every u64
\* above it.
Saturated == 2^30 + (2^30 - 1)
Secs(bits) == IF \E b \in bits : b >= 31 THEN Saturated ELSE ValueOf(bits)

\* x << s on u64, for a shift s < 64.
Shl64(bits, s) == {b + s : b \in {x \in bits : x + s < U64_BITS}}

Min(a, b) == IF a <= b THEN a ELSE b

FailureTracker_new(max, action) ==
    [consecutive |-> 0, max |-> max, action |-> action]

\* A reset that would leave the counter as it is.
FailureTracker_reset_forgotten(f) == f

\* fn reset(&mut self) { self.consecutive = 0; }
FailureTracker_reset(f) == [f EXCEPT !.consecutive = 0]

\* The shift without its .min(MAX_BACKOFF_SECS).
backoff_secs_uncapped(consecutive, checks) ==
    LET shift == consecutive - 1
    IN  IF shift >= U64_BITS /\ checks
        THEN [panic |-> TRUE]
        ELSE [panic |-> FALSE,
              secs |-> Secs(Shl64(BitsOf(INITIAL_BACKOFF_SECS, 0), shift % U64_BITS))]

\* (INITIAL_BACKOFF_SECS << (self.consecutive - 1)).min(MAX_BACKOFF_SECS)
\* A shift by 64 or more panics in a build with overflow checks and is taken
\* modulo 64 in a build without them.
backoff_secs(consecutive, checks) ==
    LET shift == consecutive - 1
    IN  IF shift >= U64_BITS /\ checks
        THEN [panic |-> TRUE]
        ELSE [panic |-> FALSE,
              secs |-> Min(Secs(Shl64(BitsOf(INITIAL_BACKOFF_SECS, 0),
                                      shift % U64_BITS)),
                           MAX_BACKOFF_SECS)]

\* A limit that would not treat max = 0 as unlimited.
max_exceeded_also_unlimited(f) == f.consecutive >= f.max

\* A limit that would fire one failure late.
max_exceeded_late(f) == f.max > 0 /\ f.consecutive > f.max

\* self.max > 0 && self.consecutive >= self.max
max_exceeded(f) == f.max > 0 /\ f.consecutive >= f.max

\* fn record(&mut self) -> FailureResponse. The counter is a u32 that saturates;
\* MaxConsecutive keeps it far below u32::MAX.
FailureTracker_record(f, checks) ==
    LET g == [f EXCEPT !.consecutive = @ + 1]
        b == backoff_secs(g.consecutive, checks)
    IN  IF max_exceeded(g)
        THEN [tracker |-> g, kind |-> "MaxExceeded", action |-> g.action]
        ELSE IF b.panic
        THEN [tracker |-> g, kind |-> "Panic"]
        ELSE [tracker |-> g, kind |-> "Backoff", secs |-> b.secs]

(***************************************************************************)
(* The reload scheduler (main.rs, spawn_reload_scheduler).                  *)
(*                                                                         *)
(* The loader's result is the environment's choice: new data with its       *)
(* metadata, Unchanged, or an error. store.swap is one step here: readers   *)
(* are in SpecSwap.                                                         *)
(***************************************************************************)
MaxMaxFailures == 3     \* max_failures is 0 (unlimited) or 1..MaxMaxFailures
MaxConsecutive == 66    \* consecutive failed attempts the environment makes
DEFAULT_RELOAD_INTERVAL == 60

FailureActions == {"Shutdown", "Clear"}

\* SourceMetadata of a URL source: the ETag of the response.
Meta(tag) == [mtime |-> None, etag |-> Some(tag), last_modified |-> None]
Metas == {Meta("v1"), Meta("v2")}

SchedLists == {<<<<1, 0>>>>, <<<<1, 0>>, <<2, 1>>>>}
SchedStores == {build_store(es).store : es \in SchedLists}

base_interval == DEFAULT_RELOAD_INTERVAL * 60

NoAttempt == [outcome |-> "none", prev |-> 0, streak |-> 0]

\* tokio::time::sleep(base_interval).await returns: the loop (re)starts.
WakeInterval ==
    /\ pc = "sleep_interval"
    /\ waited' = Append(waited, [kind |-> "interval", secs |-> base_interval])
    /\ pc' = "snapshot"
    /\ UNCHANGED <<failures, metadata, old_metadata, store, slept, attempt,
                   exit_code, overflow_checks>>
    /\ UNCHANGED <<storeVars, swapVars, loaderVars, serverVars, reloadVars, builderVars>>

\* A backoff branch without its continue: control falls through to the sleep
\* of the base interval at the end of the loop body.
falls_through_after_backoff == "sleep_interval"

\* continue: the next iteration starts at the snapshot, no base interval.
continue_after_backoff == "snapshot"

\* tokio::time::sleep(backoff).await returns; continue.
WakeBackoff ==
    /\ pc = "sleep_backoff"
    /\ waited' = Append(waited, slept)
    /\ pc' = continue_after_backoff
    /\ UNCHANGED <<failures, metadata, old_metadata, store, slept, attempt,
                   exit_code, overflow_checks>>
    /\ UNCHANGED <<storeVars, swapVars, loaderVars, serverVars, reloadVars, builderVars>>

\* let old_metadata = { reload_state.metadata.read().clone() };
Snapshot ==
    /\ pc = "snapshot"
    /\ old_metadata' = metadata
    /\ pc' = "loading"
    /\ UNCHANGED <<failures, metadata, store, slept, waited, attempt, exit_code,
                   overflow_checks>>
    /\ UNCHANGED <<storeVars, swapVars, loaderVars, serverVars, reloadVars, builderVars>>

\* A write that would leave the stored metadata as it was.
StoreMetadata_kept(current, new_metadata) == current

\* let mut guard = reload_state.metadata.write(); *guard = new_metadata;
StoreMetadata(current, new_metadata) == new_metadata

\* Ok(Some((new_store, new_metadata))): swap, store the metadata, reset.
OkSomeArm(new_store, new_metadata) ==
    /\ pc = "loading"
    /\ store' = new_store
    /\ metadata' = StoreMetadata(metadata, new_metadata)
    /\ failures' = FailureTracker_reset(failures)
    /\ attempt' = [outcome |-> "new", prev |-> failures.consecutive, streak |-> 0,
                   returned |-> [store |-> new_store, metadata |-> new_metadata]]
    /\ slept' = [kind |-> "interval", secs |-> base_interval]
    /\ waited' = <<>>
    /\ pc' = "sleep_interval"
    /\ UNCHANGED <<old_metadata, exit_code, overflow_checks>>

\* load returned Ok(Some((new_store, new_metadata))).
LoadOkSome(new_store, new_metadata) ==
    /\ OkSomeArm(new_store, new_metadata)
    /\ UNCHANGED <<storeVars, swapVars, loaderVars, serverVars, reloadVars, builderVars>>

\* An Unchanged branch that would swap in an empty store.
UnchangedBranch_clears(s, m, f) ==
    [store |-> build_store(<<>>).store, metadata |-> m,
     failures |-> FailureTracker_reset(f)]

\* Ok(None) => { failures.reset(); }: neither swap nor metadata write.
UnchangedBranch(s, m, f) ==
    [store |-> s, metadata |-> m, failures |-> FailureTracker_reset(f)]

\* Ok(None): reset.
OkNoneArm ==
    /\ pc = "loading"
    /\ store' = UnchangedBranch(store, metadata, failures).store
    /\ metadata' = UnchangedBranch(store, metadata, failures).metadata
    /\ failures' = UnchangedBranch(store, metadata, failures).failures
    /\ attempt' = [outcome |-> "unchanged", prev |-> failures.consecutive, streak |-> 0]
    /\ slept' = [kind |-> "interval", secs |-> base_interval]
    /\ waited' = <<>>
    /\ pc' = "sleep_interval"
    /\ UNCHANGED <<old_metadata, exit_code, overflow_checks>>

\* load returned Ok(None).
LoadOkNone ==
    /\ OkNoneArm
    /\ UNCHANGED <<storeVars, swapVars, loaderVars, serverVars, reloadVars, builderVars>>

\* A Clear that would swap in the empty store and keep the count.
ClearBranch_no_reset(f) ==
    [store |-> build_store(<<>>).store, failures |-> f]

\* FailureAction::Clear: swap in build_store(vec![]) and reset.
ClearBranch(f) ==
    [store |-> build_store(<<>>).store, failures |-> FailureTracker_reset(f)]

\* Err(e) => match failures.record() { Backoff | MaxExceeded(Shutdown | Clear) }
ErrArm ==
    /\ pc = "loading"
    /\ LET r == FailureTracker_record(failures, overflow_checks)
           tried == [prev |-> failures.consecutive, streak |-> attempt.streak + 1]
       IN  CASE r.kind = "Backoff" ->
                  /\ failures' = r.tracker
                  /\ attempt' = tried @@ [outcome |-> "backoff"]
                  /\ slept' = [kind |-> "backoff", secs |-> r.secs]
                  /\ pc' = "sleep_backoff"
                  /\ UNCHANGED <<store, exit_code>>
             [] r.kind = "Panic" ->
                  /\ failures' = r.tracker
                  /\ attempt' = tried @@ [outcome |-> "panic"]
                  /\ pc' = "panicked"
                  /\ UNCHANGED <<store, slept, exit_code>>
             [] r.kind = "MaxExceeded" /\ r.action = "Shutdown" ->
                  /\ failures' = r.tracker
                  /\ attempt' = tried @@ [outcome |-> "shutdown"]
                  /\ exit_code' = Some(1)
                  /\ pc' = "exited"
                  /\ UNCHANGED <<store, slept>>
             [] r.kind = "MaxExceeded" /\ r.action = "Clear" ->
                  /\ store' = ClearBranch(r.tracker).store
                  /\ failures' = ClearBranch(r.tracker).failures
                  /\ attempt' = tried @@ [outcome |-> "clear"]
                  /\ slept' = [kind |-> "interval", secs |-> base_interval]
                  /\ pc' = "sleep_interval"
                  /\ UNCHANGED exit_code
    /\ waited' = <<>>
    /\ UNCHANGED <<metadata, old_metadata, overflow_checks>>

\* load returned Err(e).
LoadErr ==
    /\ attempt.streak < MaxConsecutive
    /\ ErrArm
    /\ UNCHANGED <<storeVars, swapVars, loaderVars, serverVars, reloadVars, builderVars>>

NextSched ==
    \/ WakeInterval
    \/ WakeBackoff
    \/ Snapshot
    \/ \E s \in SchedStores, m \in Metas : LoadOkSome(s, m)
    \/ LoadOkNone
    \/ LoadErr

(***************************************************************************)
(* SourceMetadata (server/src/source.rs) and the loader                     *)
(* (server/src/loader.rs): has_changed, the file branch of                  *)
(* reload_if_changed, and load_from_url.                                    *)
(*                                                                         *)
(* What a call meets, the file on disk or the server's response, is the     *)
(* environment's choice. A CSV text is its sequence of data rows, each a    *)
(* well-formed entry, a row whose UUID does not parse, or a row that does   *)
(* not deserialize.                                                         *)
(***************************************************************************)
MaxTime == 2        \* modification times are 1..MaxTime

Times == 1..MaxTime
ETags == {"v1", "v2"}
LastModifieds == {"d1", "d2"}
Option(S) == {None} \cup {Some(x) : x \in S}

SourceMetadatas ==
    [mtime : Option(Times), etag : Option(ETags), last_modified : Option(LastModifieds)]

\* SourceMetadata::new(): every field None.
SourceMetadata_new == [mtime |-> None, etag |-> None, last_modified |-> None]

\* Result<T, LoadError>
LoadOk(value) == [ok |-> TRUE, value |-> value]
LoadFailed(error) == [ok |-> FALSE, error |-> error]

\* std::fs::metadata(path)?.modified()?: the file's mtime, or an io::Error.
SourceMetadata_from_file(file) ==
    IF file.mtime = None THEN LoadFailed("Io")
    ELSE LoadOk([mtime |-> file.mtime, etag |-> None, last_modified |-> None])

\* A comparison that would report an equal mtime as a change.
has_changed_not_earlier(self, other) ==
    IF self.mtime # None /\ other.mtime # None
    THEN other.mtime[1] >= self.mtime[1]
    ELSE TRUE

\* fn has_changed(&self, other: &SourceMetadata) -> bool: self is the old
\* metadata, other the new. The first pair present on both sides decides.
has_changed(self, other) ==
    IF self.mtime = None /\ self.etag = None /\ self.last_modified = None
    THEN TRUE
    ELSE IF self.mtime # None /\ other.mtime # None
    THEN other.mtime[1] > self.mtime[1]
    ELSE IF self.etag # None /\ other.etag # None
    THEN self.etag # other.etag
    ELSE IF self.last_modified # None /\ other.last_modified # None
    THEN self.last_modified # other.last_modified
    ELSE TRUE

\* The data rows of a CSV text.
Row(uuid, level) == [kind |-> "entry", uuid |-> uuid, visibility_level |-> level]
BadUuidRow == [kind |-> "bad_uuid"]
BadRecordRow == [kind |-> "bad_record"]
Texts ==
    {<<>>,
     <<Row(1, 0)>>,
     <<Row(1, 0), Row(2, 1)>>,
     <<Row(2, 1), Row(2, 0)>>,
     <<Row(1, 0), BadUuidRow>>,
     <<BadRecordRow, Row(1, 0)>>}

\* fn load_entries_from_reader: the rows in order; the first row that does not
\* deserialize, or whose UUID does not parse, ends the load with its error
\* (the header being line 1, data row i is line i + 1).
RECURSIVE load_entries_from_reader(_, _, _)
load_entries_from_reader(text, i, entries_so_far) ==
    IF i > Len(text) THEN LoadOk(entries_so_far)
    ELSE IF text[i].kind = "bad_record" THEN LoadFailed("CsvError")
    ELSE IF text[i].kind = "bad_uuid" THEN LoadFailed("InvalidFormat")
    ELSE load_entries_from_reader(text, i + 1,
             Append(entries_so_far, <<text[i].uuid, text[i].visibility_level>>))

\* occlusion::build_store(entries)?
build_store_or_error(es) ==
    LET b == build_store(es)
    IN  IF b.ok THEN LoadOk(b.store) ELSE LoadFailed("StoreError")

\* The file a file source names: its mtime (None when it cannot be stat'ed),
\* whether it can be opened, and its text.
Files == [mtime : Option(Times), readable : BOOLEAN, text : Texts]

\* fn load_entries_from_file: File::open(path)?, then the reader.
load_entries_from_file(file) ==
    IF ~file.readable THEN LoadFailed("Io")
    ELSE load_entries_from_reader(file.text, 1, <<>>)

\* A loader that would open and read the file before it reads its mtime.
file_reads_content_first(at_first, at_second) ==
    [stat |-> at_second, open |-> at_first]

\* The loader reads the file twice, and the file may change in between:
\* SourceMetadata::from_file(path) sees it as it is at the first read,
\* load_entries_from_file(path) as it is at the second.
file_reads(at_first, at_second) ==
    [stat |-> at_first, open |-> at_second]

\* reload_if_changed, DataSource::File(path).
reload_if_changed_reads(old, at_first, at_second) ==
    LET reads == file_reads(at_first, at_second)
        new_metadata == SourceMetadata_from_file(reads.stat)
    IN  IF ~new_metadata.ok THEN new_metadata
        ELSE IF ~has_changed(old, new_metadata.value) THEN LoadOk(None)
        ELSE LET es == load_entries_from_file(reads.open)
             IN  IF ~es.ok THEN es
                 ELSE LET built_store == build_store_or_error(es.value)
                      IN  IF ~built_store.ok THEN built_store
                          ELSE LoadOk(Some([store |-> built_store.value,
                                            metadata |-> new_metadata.value]))

\* reload_if_changed on a file that nothing changes during the call.
reload_if_changed_file(old, file) == reload_if_changed_reads(old, file, file)

\* load_from_source, DataSource::File(path): the metadata, then the entries,
\* then the store.
load_from_source_reads(at_first, at_second) ==
    LET reads == file_reads(at_first, at_second)
        metadata_read == SourceMetadata_from_file(reads.stat)
    IN  IF ~metadata_read.ok THEN metadata_read
        ELSE LET es == load_entries_from_file(reads.open)
             IN  IF ~es.ok THEN es
                 ELSE LET built_store == build_store_or_error(es.value)
                      IN  IF ~built_store.ok THEN built_store
                          ELSE LoadOk([store |-> built_store.value,
                                       metadata |-> metadata_read.value])

\* load(source, old_metadata) for a file source: without old metadata the
\* unconditional load, whose result is always new data; with it the
\* conditional reload.
load(old, at_first, at_second) ==
    IF old = None
    THEN LET loaded == load_from_source_reads(at_first, at_second)
         IN  IF loaded.ok THEN LoadOk(Some(loaded.value)) ELSE loaded
    ELSE reload_if_changed_reads(old[1], at_first, at_second)

\* A header value that is not visible ASCII: HeaderValue::to_str() fails on it.
NotVisibleAscii == "\\xff"
HeaderValues(S) == Option(S \cup {NotVisibleAscii})

NOT_MODIFIED == 304
Statuses == {200, 204, NOT_MODIFIED, 404, 500}

\* StatusCode::is_success(): 200..=299.
is_success(status) == 200 <= status /\ status < 300

\* The outcome of request.send(): no response at all, or a response with its
\* status, its ETag and Last-Modified headers, and its body (text() may fail).
NoResponse == [sent |-> FALSE]
Responses ==
    {NoResponse} \cup
    [sent : {TRUE}, status : Statuses, etag : HeaderValues(ETags),
     last_modified : HeaderValues(LastModifieds), text_ok : BOOLEAN, text : Texts]

\* headers.get(name).and_then(|v| v.to_str().ok()).map(|s| s.to_string())
header_to_string(value) ==
    IF value = None \/ value = Some(NotVisibleAscii) THEN None ELSE value

\* fn extract_metadata_from_headers
extract_metadata_from_headers(response) ==
    [mtime |-> None,
     etag |-> header_to_string(response.etag),
     last_modified |-> header_to_string(response.last_modified)]

\* if let Some(meta) = old_metadata { If-None-Match: etag; If-Modified-Since:
\* last_modified }, each when the field is Some.
conditional_headers(old) ==
    IF old = None
    THEN [if_none_match |-> None, if_modified_since |-> None]
    ELSE [if_none_match |-> old[1].etag,
          if_modified_since |-> old[1].last_modified]

\* A dispatch that would take a 304 for a failure.
status_outcome_304_fails(status) ==
    IF is_success(status) THEN "success" ELSE "error"

\* if status == NOT_MODIFIED { return Ok(None) }
\* if !status.is_success() { return Err(HttpError) }
status_outcome(status) ==
    IF status = NOT_MODIFIED THEN "not_modified"
    ELSE IF ~is_success(status) THEN "error"
    ELSE "success"

\* fn load_from_url, from the response on.
load_from_url(response) ==
    IF ~response.sent THEN LoadFailed("ReqwestError")
    ELSE IF status_outcome(response.status) = "not_modified" THEN LoadOk(None)
    ELSE IF status_outcome(response.status) = "error" THEN LoadFailed("HttpError")
    ELSE LET new_metadata == extract_metadata_from_headers(response)
         IN  IF ~response.text_ok THEN LoadFailed("ReqwestError")
             ELSE LET es == load_entries_from_reader(response.text, 1, <<>>)
                  IN  IF ~es.ok THEN es
                      ELSE LET built_store == build_store_or_error(es.value)
                           IN  IF ~built_store.ok THEN built_store
                               ELSE LoadOk(Some([store |-> built_store.value,
                                                 metadata |-> new_metadata]))

\* old.has_changed(&new) is called.
HasChanged(old, new) ==
    /\ loader_call = NoLoaderCall
    /\ loader_call' = [op |-> "has_changed", old |-> old, new |-> new]
    /\ loader_result' = has_changed(old, new)
    /\ UNCHANGED <<storeVars, swapVars, schedVars, serverVars, reloadVars, builderVars>>

\* reload_if_changed(&DataSource::File(path), &old_metadata) is called.
ReloadIfChangedFile(old, file) ==
    /\ loader_call = NoLoaderCall
    /\ loader_call' = [op |-> "reload_if_changed", old_metadata |-> old,
                       file |-> file]
    /\ loader_result' = reload_if_changed_file(old, file)
    /\ UNCHANGED <<storeVars, swapVars, schedVars, serverVars, reloadVars, builderVars>>

\* load_from_url(url, old_metadata) is called: the request goes out with its
\* conditional headers and the server's response comes back.
LoadFromUrl(old, response) ==
    /\ loader_call = NoLoaderCall
    /\ loader_call' = [op |-> "load_from_url", old_metadata |-> old,
                       headers |-> conditional_headers(old),
                       response |-> response]
    /\ loader_result' = load_from_url(response)
    /\ UNCHANGED <<storeVars, swapVars, schedVars, serverVars, reloadVars, builderVars>>

\* A loader function is called once; the arguments and what the call meets
\* are chosen when it is.
NextLoader ==
    \/ /\ loader_call = NoLoaderCall
       /\ \E old, new \in SourceMetadatas : HasChanged(old, new)
    \/ /\ loader_call = NoLoaderCall
       /\ \E old \in SourceMetadatas, file \in Files : ReloadIfChangedFile(old, file)
    \/ /\ loader_call = NoLoaderCall
       /\ \E old \in Option(SourceMetadatas), response \in Responses :
              LoadFromUrl(old, response)

(***************************************************************************)
(* The scheduler reloading from a file source (main.rs, loader.rs) while the *)
(* file is modified, disappears and comes back.                              *)
(***************************************************************************)
MaxMtime == 3       \* the file's versions have mtimes 1..MaxMtime
MaxOutage == 4      \* longest run of failed load attempts followed

\* What the file may hold: one entry, two entries, or a row that cannot be
\* parsed.
ReloadTexts == {<<Row(1, 0)>>, <<Row(1, 0), Row(2, 1)>>, <<Row(1, 0), BadUuidRow>>}

\* The file as std::fs::metadata and File::open find it: neither succeeds
\* while the file is not there.
OnDisk(f) ==
    [mtime |-> IF f.available THEN Some(f.mtime) ELSE None,
     readable |-> f.available,
     text |-> f.text]

\* Somebody rewrites the file; its mtime moves forward.
Modify(text) ==
    /\ source_file.mtime < MaxMtime
    /\ source_file' = [source_file EXCEPT !.mtime = @ + 1, !.text = text]
    /\ UNCHANGED <<stat_seen, checked, built_from>>
    /\ UNCHANGED <<storeVars, swapVars, schedVars, loaderVars, serverVars, builderVars>>

\* The file becomes unreachable (unmounted, moved away), content and mtime
\* untouched.
OutageBegins ==
    /\ source_file.available
    /\ source_file' = [source_file EXCEPT !.available = FALSE]
    /\ UNCHANGED <<stat_seen, checked, built_from>>
    /\ UNCHANGED <<storeVars, swapVars, schedVars, loaderVars, serverVars, builderVars>>

\* The file is back as it was.
OutageEnds ==
    /\ ~source_file.available
    /\ source_file' = [source_file EXCEPT !.available = TRUE]
    /\ UNCHANGED <<stat_seen, checked, built_from>>
    /\ UNCHANGED <<storeVars, swapVars, schedVars, loaderVars, serverVars, builderVars>>

\* load(&reload_state.source, Some(&old_metadata)) starts: the loader's first
\* read of the file.
ReloadFirstRead ==
    /\ pc = "loading"
    /\ stat_seen = None
    /\ stat_seen' = Some(OnDisk(source_file))
    /\ UNCHANGED <<source_file, checked, built_from>>
    /\ UNCHANGED <<storeVars, swapVars, schedVars, loaderVars, serverVars, builderVars>>

\* The loader's second read of the file, the build and the return of load;
\* the scheduler's match on the result.
ReloadFinish ==
    /\ pc = "loading"
    /\ stat_seen # None
    /\ LET at_second == OnDisk(source_file)
           result == load(Some(old_metadata), stat_seen[1], at_second)
           reads == file_reads(stat_seen[1], at_second)
       IN  /\ IF ~result.ok
              THEN /\ attempt.streak < MaxOutage
                   /\ ErrArm
                   /\ built_from' =
                          IF attempt'.outcome = "clear" THEN None ELSE built_from
              ELSE IF result.value = None
              THEN /\ OkNoneArm
                   /\ UNCHANGED built_from
              ELSE /\ OkSomeArm(result.value[1].store, result.value[1].metadata)
                   /\ built_from' = reads.open.mtime
           /\ checked' = reads.stat.mtime
    /\ stat_seen' = None
    /\ UNCHANGED source_file
    /\ UNCHANGED <<storeVars, swapVars, loaderVars, serverVars, builderVars>>

NextReload ==
    \/ WakeInterval
    \/ WakeBackoff
    \/ Snapshot
    \/ ReloadFirstRead
    \/ ReloadFinish
    \/ \E text \in ReloadTexts : Modify(text)
    \/ OutageBegins
    \/ OutageEnds

(***************************************************************************)
(* The server (main.rs, routes.rs): request handler threads and the reload   *)
(* scheduler share the SwappableStore and reload_state.metadata, each        *)
(* behind its own RwLock.  One step per lock operation.                      *)
(***************************************************************************)
NumHandlers == 2

Scheduler == 0
Handlers == 1..NumHandlers
ServerThreads == {Scheduler} \cup Handlers

\* The stores the loader can return, and the empty one of a Clear.
ServerLists == {InitialList, <<<<1, 1>>>>}
ServerStores == {build_store(es).store : es \in ServerLists}

NoGuards == [readers |-> {}, writer |-> {}]
NoLocals == [req |-> "none"]

\* The SwappableStore calls each route makes, in order.
calls_of(req) ==
    CASE req = "check" -> <<"is_visible">>
      [] req = "health" -> <<"len">>
      [] req = "stats" -> <<"len", "visibility_distribution">>

\* What one SwappableStore call returns from the store s it finds installed.
read_call(op, s) ==
    CASE op = "is_visible" -> HashMapStore_is_visible(s, 1, 0)
      [] op = "len" -> HashMapStore_len(s)
      [] op = "visibility_distribution" -> HashMapStore_visibility_distribution(s)

\* The JSON body each route builds from what its calls returned.
response_of(req, results) ==
    CASE req = "check" -> [object |-> 1, is_visible |-> results[1]]
      [] req = "health" -> [status |-> "ok", uuid_count |-> results[1]]
      [] req = "stats" -> [total_uuids |-> results[1],
                           visibility_distribution |-> results[2]]

Running == spc[Scheduler] # "exited"

\* Rocket hands a request to a handler thread.
Receive(t, req) ==
    /\ Running
    /\ spc[t] = "idle"
    /\ local' = [local EXCEPT ![t] =
           [req |-> req, calls |-> calls_of(req), results |-> <<>>]]
    /\ spc' = [spc EXCEPT ![t] = "read_wait"]
    /\ UNCHANGED <<srv_inner, store_guards, srv_metadata, metadata_guards>>
    /\ UNCHANGED <<storeVars, swapVars, schedVars, loaderVars, reloadVars, builderVars>>

\* let guard = self.inner.read().expect("RwLock poisoned");
HandlerReadAcquire(t) ==
    /\ Running
    /\ spc[t] = "read_wait"
    /\ store_guards.writer = {}
    /\ store_guards' = [store_guards EXCEPT !.readers = @ \cup {t}]
    /\ spc' = [spc EXCEPT ![t] = "reading"]
    /\ UNCHANGED <<srv_inner, srv_metadata, metadata_guards, local>>
    /\ UNCHANGED <<storeVars, swapVars, schedVars, loaderVars, reloadVars, builderVars>>

\* guard.<op>(..) is computed and returned, and the read guard goes out of
\* scope; the route then makes its next call or builds its response.
HandlerReadReturn(t) ==
    /\ Running
    /\ spc[t] = "reading"
    /\ LET l == local[t]
           results == Append(l.results, read_call(Head(l.calls), srv_inner))
       IN  IF Len(l.calls) > 1
           THEN /\ local' = [local EXCEPT ![t] =
                       [l EXCEPT !.calls = Tail(@), !.results = results]]
                /\ spc' = [spc EXCEPT ![t] = "read_wait"]
           ELSE /\ local' = [local EXCEPT ![t] =
                       [req |-> l.req, response |-> response_of(l.req, results)]]
                /\ spc' = [spc EXCEPT ![t] = "responded"]
    /\ store_guards' = [store_guards EXCEPT !.readers = @ \ {t}]
    /\ UNCHANGED <<srv_inner, srv_metadata, metadata_guards>>
    /\ UNCHANGED <<storeVars, swapVars, schedVars, loaderVars, reloadVars, builderVars>>

\* The response is sent and the thread is free for the next request.
Respond(t) ==
    /\ Running
    /\ spc[t] = "responded"
    /\ local' = [local EXCEPT ![t] = NoLocals]
    /\ spc' = [spc EXCEPT ![t] = "idle"]
    /\ UNCHANGED <<srv_inner, store_guards, srv_metadata, metadata_guards>>
    /\ UNCHANGED <<storeVars, swapVars, schedVars, loaderVars, reloadVars, builderVars>>

\* tokio::time::sleep(..).await returns and the loop body starts.
SchedWake ==
    /\ spc[Scheduler] = "sleeping"
    /\ spc' = [spc EXCEPT ![Scheduler] = "metadata_read_wait"]
    /\ UNCHANGED <<srv_inner, store_guards, srv_metadata, metadata_guards, local>>
    /\ UNCHANGED <<storeVars, swapVars, schedVars, loaderVars, reloadVars, builderVars>>

\* let guard = reload_state.metadata.read().expect("RwLock poisoned");
SchedMetadataReadAcquire ==
    /\ spc[Scheduler] = "metadata_read_wait"
    /\ metadata_guards.writer = {}
    /\ metadata_guards' = [metadata_guards EXCEPT !.readers = @ \cup {Scheduler}]
    /\ spc' = [spc EXCEPT ![Scheduler] = "metadata_reading"]
    /\ UNCHANGED <<srv_inner, store_guards, srv_metadata, local>>
    /\ UNCHANGED <<storeVars, swapVars, schedVars, loaderVars, reloadVars, builderVars>>

\* A snapshot whose read guard would live on to the end of the loop body.
snapshot_guard_kept(holders) == holders

\* { let guard = ..; guard.clone() }: the guard is dropped with the block.
snapshot_guard_dropped(holders) == holders \ {Scheduler}

\* guard.clone() becomes old_metadata.
SchedSnapshot ==
    /\ spc[Scheduler] = "metadata_reading"
    /\ local' = [local EXCEPT ![Scheduler] =
           [req |-> "reload", old_metadata |-> srv_metadata]]
    /\ metadata_guards' =
           [metadata_guards EXCEPT !.readers = snapshot_guard_dropped(@)]
    /\ spc' = [spc EXCEPT ![Scheduler] = "fetch"]
    /\ UNCHANGED <<srv_inner, store_guards, srv_metadata>>
    /\ UNCHANGED <<storeVars, swapVars, schedVars, loaderVars, reloadVars, builderVars>>

\* load(&source, Some(&old_metadata)): the source is read.  It is unchanged
\* (Ok(None): failures.reset(), then the base sleep), or cannot be read, or
\* hands over its content.
SchedFetch(outcome) ==
    /\ spc[Scheduler] = "fetch"
    /\ spc' = [spc EXCEPT ![Scheduler] =
           CASE outcome = "unchanged" -> "sleeping"
             [] outcome = "error" -> "failed"
             [] outcome = "content" -> "parse"]
    /\ UNCHANGED <<srv_inner, store_guards, srv_metadata, metadata_guards, local>>
    /\ UNCHANGED <<storeVars, swapVars, schedVars, loaderVars, reloadVars, builderVars>>

\* load_entries_from_reader: the rows are parsed, or one of them is invalid.
SchedParse(ok) ==
    /\ spc[Scheduler] = "parse"
    /\ spc' = [spc EXCEPT ![Scheduler] = IF ok THEN "build" ELSE "failed"]
    /\ UNCHANGED <<srv_inner, store_guards, srv_metadata, metadata_guards, local>>
    /\ UNCHANGED <<storeVars, swapVars, schedVars, loaderVars, reloadVars, builderVars>>

\* occlusion::build_store(entries): the new store, or a duplicate UUID.
\* Ok(Some((new_store, new_metadata))) is what load returns.
SchedBuild(result, new_metadata) ==
    /\ spc[Scheduler] = "build"
    /\ IF result.ok
       THEN /\ local' = [local EXCEPT ![Scheduler] =
                   @ @@ [arm |-> "new", new_store |-> result.store,
                         new_metadata |-> new_metadata]]
            /\ spc' = [spc EXCEPT ![Scheduler] = "swap_wait"]
       ELSE /\ spc' = [spc EXCEPT ![Scheduler] = "failed"]
            /\ UNCHANGED local
    /\ UNCHANGED <<srv_inner, store_guards, srv_metadata, metadata_guards>>
    /\ UNCHANGED <<storeVars, swapVars, schedVars, loaderVars, reloadVars, builderVars>>

\* Err(e) => match failures.record(): a backoff sleep, process::exit(1), or a
\* Clear that swaps in build_store(vec![]).  Which of them the tracker answers
\* is SpecSched's subject; here it may be any.
SchedFailed(response) ==
    /\ spc[Scheduler] = "failed"
    /\ CASE response = "Backoff" ->
              /\ spc' = [spc EXCEPT ![Scheduler] = "sleeping"]
              /\ UNCHANGED local
         [] response = "Shutdown" ->
              /\ spc' = [spc EXCEPT ![Scheduler] = "exited"]
              /\ UNCHANGED local
         [] response = "Clear" ->
              /\ local' = [local EXCEPT ![Scheduler] =
                     [req |-> "reload", old_metadata |-> @.old_metadata,
                      arm |-> "clear", new_store |-> build_store(<<>>).store]]
              /\ spc' = [spc EXCEPT ![Scheduler] = "swap_wait"]
    /\ UNCHANGED <<srv_inner, store_guards, srv_metadata, metadata_guards>>
    /\ UNCHANGED <<storeVars, swapVars, schedVars, loaderVars, reloadVars, builderVars>>

\* swap: let mut guard = self.inner.write().expect("RwLock poisoned");
SchedSwapAcquire ==
    /\ spc[Scheduler] = "swap_wait"
    /\ store_guards = NoGuards
    /\ store_guards' = [store_guards EXCEPT !.writer = {Scheduler}]
    /\ spc' = [spc EXCEPT ![Scheduler] = "swap_locked"]
    /\ UNCHANGED <<srv_inner, srv_metadata, metadata_guards, local>>
    /\ UNCHANGED <<storeVars, swapVars, schedVars, loaderVars, reloadVars, builderVars>>

\* swap: *guard = new_store;
SchedSwapAssign ==
    /\ spc[Scheduler] = "swap_locked"
    /\ srv_inner' = local[Scheduler].new_store
    /\ spc' = [spc EXCEPT ![Scheduler] = "swap_assigned"]
    /\ UNCHANGED <<store_guards, srv_metadata, metadata_guards, local>>
    /\ UNCHANGED <<storeVars, swapVars, schedVars, loaderVars, reloadVars, builderVars>>

\* A swap whose write guard would outlive the call.
swap_guard_kept(holders) == holders

\* swap returns: the write guard goes out of scope.
swap_guard_dropped(holders) == holders \ {Scheduler}

\* swap returns.  After new data the metadata is stored next; after a Clear
\* failures.reset() and the base sleep follow.
SchedSwapReturn ==
    /\ spc[Scheduler] = "swap_assigned"
    /\ store_guards' = [store_guards EXCEPT !.writer = swap_guard_dropped(@)]
    /\ spc' = [spc EXCEPT ![Scheduler] =
           IF local[Scheduler].arm = "new" THEN "metadata_write_wait"
           ELSE "sleeping"]
    /\ UNCHANGED <<srv_inner, srv_metadata, metadata_guards, local>>
    /\ UNCHANGED <<storeVars, swapVars, schedVars, loaderVars, reloadVars, builderVars>>

\* let mut guard = reload_state.metadata.write().expect("RwLock poisoned");
SchedMetadataWriteAcquire ==
    /\ spc[Scheduler] = "metadata_write_wait"
    /\ metadata_guards = NoGuards
    /\ metadata_guards' = [metadata_guards EXCEPT !.writer = {Scheduler}]
    /\ spc' = [spc EXCEPT ![Scheduler] = "metadata_locked"]
    /\ UNCHANGED <<srv_inner, store_guards, srv_metadata, local>>
    /\ UNCHANGED <<storeVars, swapVars, schedVars, loaderVars, reloadVars, builderVars>>

\* *guard = new_metadata;
SchedMetadataAssign ==
    /\ spc[Scheduler] = "metadata_locked"
    /\ srv_metadata' = local[Scheduler].new_metadata
    /\ spc' = [spc EXCEPT ![Scheduler] = "metadata_assigned"]
    /\ UNCHANGED <<srv_inner, store_guards, metadata_guards, local>>
    /\ UNCHANGED <<storeVars, swapVars, schedVars, loaderVars, reloadVars, builderVars>>

\* failures.reset(); the match arm ends and every guard of the loop body goes
\* out of scope; the base sleep follows.
SchedArmEnd ==
    /\ spc[Scheduler] = "metadata_assigned"
    /\ metadata_guards' = NoGuards
    /\ spc' = [spc EXCEPT ![Scheduler] = "sleeping"]
    /\ UNCHANGED <<srv_inner, store_guards, srv_metadata, local>>
    /\ UNCHANGED <<storeVars, swapVars, schedVars, loaderVars, reloadVars, builderVars>>

NextServer ==
    \/ \E t \in Handlers, req \in {"check", "health", "stats"} : Receive(t, req)
    \/ \E t \in Handlers : HandlerReadAcquire(t)
    \/ \E t \in Handlers : HandlerReadReturn(t)
    \/ \E t \in Handlers : Respond(t)
    \/ SchedWake
    \/ SchedMetadataReadAcquire
    \/ SchedSnapshot
    \/ \E outcome \in {"unchanged", "error", "content"} : SchedFetch(outcome)
    \/ \E ok \in BOOLEAN : SchedParse(ok)
    \/ \E es \in ServerLists \cup {<<<<1, 0>>, <<1, 1>>>>}, m \in Metas :
           SchedBuild(build_store(es), m)
    \/ \E response \in {"Backoff", "Shutdown", "Clear"} : SchedFailed(response)
    \/ SchedSwapAcquire
    \/ SchedSwapAssign
    \/ SchedSwapReturn
    \/ SchedMetadataWriteAcquire
    \/ SchedMetadataAssign
    \/ SchedArmEnd

(***************************************************************************)
(* StoreBuilder (builder.rs) over the library's CSV loaders (lib loader.rs).  *)
(* Which type ActiveStore names is fixed when the library is compiled.        *)
(***************************************************************************)
StoreFeatures == {"vec", "hybrid", "fullhash"}
StoreAlgorithms == {"HashMap", "Vec", "Hybrid", "FullHash"}

\* pub type ActiveStore, by the cfg attributes on its four definitions.
ActiveStore(fs) ==
    IF "fullhash" \in fs THEN "fullhash"
    ELSE IF "hybrid" \in fs THEN "hybrid"
    ELSE IF "vec" \in fs THEN "vec"
    ELSE "hashmap"

\* <variant>::new(entries)
new_of(variant, es) ==
    CASE variant = "hashmap" -> HashMapStore_new(es)
      [] variant = "vec" -> VecStore_new(es)
      [] variant = "hybrid" -> HybridAuthStore_new(es)
      [] variant = "fullhash" -> FullHashStore_new(es)

\* fn load_entries: File::open(path), then load_entries_from_reader.
load_entries(csv) ==
    IF ~csv.readable THEN LoadFailed("IoError")
    ELSE load_entries_from_reader(csv.text, 1, <<>>)

\* let entries = load_entries(path)?;
\* <variant>::new(entries).map_err(StoreError::InvalidFormat)
load_variant_from_csv(variant, csv) ==
    LET es == load_entries(csv)
    IN  IF ~es.ok THEN es
        ELSE LET b == new_of(variant, es.value)
             IN  IF b.ok THEN LoadOk([variant |-> variant, store |-> b.store])
                 ELSE LoadFailed("InvalidFormat")

\* pub fn load_from_csv(path) -> Result<ActiveStore>: the one of its four
\* definitions that the features select.
load_from_csv(fs, csv) == load_variant_from_csv(ActiveStore(fs), csv)

\* The loaders of one fixed variant each. builder.rs imports those of
\* HashMapStore, HybridAuthStore and FullHashStore, and not load_vec_from_csv.
load_hashmap_from_csv(csv) == load_variant_from_csv("hashmap", csv)
load_vec_from_csv(csv) == load_variant_from_csv("vec", csv)
load_hybrid_from_csv(csv) == load_variant_from_csv("hybrid", csv)
load_fullhash_from_csv(csv) == load_variant_from_csv("fullhash", csv)

\* StoreAlgorithm::default()
StoreAlgorithm_default == "HashMap"

\* StoreBuilder::new()
StoreBuilder_new == [algorithm |-> StoreAlgorithm_default]

\* StoreBuilder::algorithm(self, algorithm)
StoreBuilder_algorithm(self, algorithm) == [self EXCEPT !.algorithm = algorithm]

\* StoreBuilder::load_from_csv(self, path): match self.algorithm { .. }
StoreBuilder_load_from_csv(self, fs, csv) ==
    CASE self.algorithm = "HashMap" -> load_hashmap_from_csv(csv)
      [] self.algorithm = "Vec" -> load_from_csv(fs, csv)
      [] self.algorithm = "Hybrid" -> load_hybrid_from_csv(csv)
      [] self.algorithm = "FullHash" -> load_fullhash_from_csv(csv)

CsvFiles == [readable : BOOLEAN, text : Texts]
NotLoaded == [done |-> FALSE]

\* builder.algorithm(a)
SetAlgorithm(a) ==
    /\ ~builder_result.done
    /\ builder' = StoreBuilder_algorithm(builder, a)
    /\ UNCHANGED <<features, builder_result>>
    /\ UNCHANGED <<storeVars, swapVars, schedVars, loaderVars, serverVars, reloadVars>>

\* builder.load_from_csv(path)
LoadFromCsv(csv) ==
    /\ ~builder_result.done
    /\ builder_result' = [done |-> TRUE, path |-> csv,
                  result |-> StoreBuilder_load_from_csv(builder, features, csv)]
    /\ UNCHANGED <<features, builder>>
    /\ UNCHANGED <<storeVars, swapVars, schedVars, loaderVars, serverVars, reloadVars>>

NextBuilder ==
    \/ \E a \in StoreAlgorithms : SetAlgorithm(a)
    \/ \E csv \in CsvFiles : LoadFromCsv(csv)

(***************************************************************************)
(* The specifications. Each leaves the other parts at rest.                 *)
(***************************************************************************)
\* The variables of each part of the program while that part is not running.
IdleStore ==
    /\ entries = <<>> /\ built = NotBuilt /\ answer = NoAnswer
    /\ first_answer = NoAnswer

IdleSwap ==
    /\ inner = <<>> /\ readers = <<>> /\ writer = <<>>
    /\ handle = <<>> /\ tpc = <<>> /\ call = <<>> /\ installed = <<>>
    /\ latest = build_store(<<>>).store

IdleSched ==
    /\ pc = "off"
    /\ failures = FailureTracker_new(0, "Shutdown")
    /\ metadata = Meta("v1") /\ old_metadata = Meta("v1")
    /\ store = build_store(<<>>).store
    /\ slept = [kind |-> "interval", secs |-> base_interval]
    /\ waited = <<>>
    /\ attempt = NoAttempt
    /\ exit_code = None
    /\ overflow_checks = FALSE

IdleLoader ==
    /\ loader_call = NoLoaderCall /\ loader_result = NoLoaderCall

IdleReload ==
    /\ source_file = [available |-> TRUE, mtime |-> 1, text |-> <<>>]
    /\ stat_seen = None /\ checked = None /\ built_from = None

IdleBuilder ==
    /\ features = {} /\ builder = StoreBuilder_new /\ builder_result = NotLoaded

IdleServer ==
    /\ srv_inner = build_store(<<>>).store
    /\ store_guards = NoGuards
    /\ srv_metadata = Meta("v1")
    /\ metadata_guards = NoGuards
    /\ spc = <<>> /\ local = <<>>

InitStoreSpec ==
    /\ entries = <<>> /\ built = NotBuilt /\ answer = NoAnswer
    /\ first_answer = NoAnswer
    /\ inner = <<>> /\ readers = <<>> /\ writer = <<>>
    /\ handle = <<>> /\ tpc = <<>> /\ call = <<>> /\ installed = <<>>
    /\ latest = build_store(<<>>).store
    /\ pc = "off"
    /\ failures = FailureTracker_new(0, "Shutdown")
    /\ metadata = Meta("v1") /\ old_metadata = Meta("v1")
    /\ store = build_store(<<>>).store
    /\ slept = [kind |-> "interval", secs |-> base_interval]
    /\ waited = <<>>
    /\ attempt = NoAttempt
    /\ exit_code = None
    /\ overflow_checks = FALSE
    /\ loader_call = NoLoaderCall /\ loader_result = NoLoaderCall
    /\ IdleServer /\ IdleReload /\ IdleBuilder

\* SwappableStore::new(store)
InitSwapSpec ==
    /\ entries = <<>> /\ built = NotBuilt /\ answer = NoAnswer
    /\ first_answer = NoAnswer
    /\ inner = <<build_store(InitialList).store>>
    /\ latest = build_store(InitialList).store
    /\ readers = <<{}>>
    /\ writer = <<{}>>
    /\ handle = [t \in Threads |-> 1]
    /\ tpc = [t \in Threads |-> "start"]
    /\ call = [t \in Threads |-> NoCall]
    /\ installed = [t \in Threads |-> <<>>]
    /\ pc = "off"
    /\ failures = FailureTracker_new(0, "Shutdown")
    /\ metadata = Meta("v1") /\ old_metadata = Meta("v1")
    /\ store = build_store(<<>>).store
    /\ slept = [kind |-> "interval", secs |-> base_interval]
    /\ waited = <<>>
    /\ attempt = NoAttempt
    /\ exit_code = None
    /\ overflow_checks = FALSE
    /\ loader_call = NoLoaderCall /\ loader_result = NoLoaderCall
    /\ IdleServer /\ IdleReload /\ IdleBuilder

\* The state when spawn_reload_scheduler's task starts its initial sleep.
InitSchedSpec ==
    /\ entries = <<>> /\ built = NotBuilt /\ answer = NoAnswer
    /\ first_answer = NoAnswer
    /\ inner = <<>> /\ readers = <<>> /\ writer = <<>>
    /\ handle = <<>> /\ tpc = <<>> /\ call = <<>> /\ installed = <<>>
    /\ latest = build_store(<<>>).store
    /\ pc = "sleep_interval"
    /\ \E max \in 0..MaxMaxFailures, action \in FailureActions :
           failures = FailureTracker_new(max, action)
    /\ metadata = Meta("v1")
    /\ old_metadata = Meta("v1")
    /\ store \in SchedStores
    /\ slept = [kind |-> "interval", secs |-> base_interval]
    /\ waited = <<>>
    /\ attempt = NoAttempt
    /\ exit_code = None
    /\ overflow_checks \in BOOLEAN
    /\ loader_call = NoLoaderCall /\ loader_result = NoLoaderCall
    /\ IdleServer /\ IdleReload /\ IdleBuilder

\* No loader function has been called yet.
InitLoaderSpec ==
    /\ entries = <<>> /\ built = NotBuilt /\ answer = NoAnswer
    /\ first_answer = NoAnswer
    /\ inner = <<>> /\ readers = <<>> /\ writer = <<>>
    /\ handle = <<>> /\ tpc = <<>> /\ call = <<>> /\ installed = <<>>
    /\ latest = build_store(<<>>).store
    /\ pc = "off"
    /\ failures = FailureTracker_new(0, "Shutdown")
    /\ metadata = Meta("v1") /\ old_metadata = Meta("v1")
    /\ store = build_store(<<>>).store
    /\ slept = [kind |-> "interval", secs |-> base_interval]
    /\ waited = <<>>
    /\ attempt = NoAttempt
    /\ exit_code = None
    /\ overflow_checks = FALSE
    /\ loader_call = NoLoaderCall /\ loader_result = NoLoaderCall
    /\ IdleServer /\ IdleReload /\ IdleBuilder

\* A caller hands any entry list of up to MaxDupLen entries, duplicates
\* included, to the four constructors.
InitBuildSpec ==
    /\ entries \in DupLists
    /\ built = NotBuilt /\ answer = NoAnswer /\ first_answer = NoAnswer
    /\ IdleSwap /\ IdleSched /\ IdleLoader /\ IdleServer /\ IdleReload /\ IdleBuilder

SpecStore == InitStoreSpec /\ [][NextStore]_vars

SpecBuild == InitBuildSpec /\ [][Build]_vars

\* main: the store and metadata of the first load are installed, Rocket's
\* handler threads are idle and the scheduler is in its initial sleep.
InitServerSpec ==
    /\ IdleStore /\ IdleSwap /\ IdleSched /\ IdleLoader /\ IdleReload /\ IdleBuilder
    /\ srv_inner = build_store(InitialList).store
    /\ store_guards = NoGuards
    /\ srv_metadata = Meta("v1")
    /\ metadata_guards = NoGuards
    /\ spc = [t \in ServerThreads |-> IF t = Scheduler THEN "sleeping" ELSE "idle"]
    /\ local = [t \in ServerThreads |-> NoLocals]

SpecServer == InitServerSpec /\ [][NextServer]_vars

\* main: load_store has loaded the file as it then was, and the scheduler is
\* in its initial sleep.
InitReloadSpec ==
    /\ IdleStore /\ IdleSwap /\ IdleLoader /\ IdleServer /\ IdleBuilder
    /\ \E text \in ReloadTexts :
           LET first == [available |-> TRUE, mtime |-> 1, text |-> text]
               loaded == load(None, OnDisk(first), OnDisk(first))
           IN  /\ loaded.ok
               /\ source_file = first
               /\ store = loaded.value[1].store
               /\ metadata = loaded.value[1].metadata
               /\ old_metadata = loaded.value[1].metadata
    /\ stat_seen = None
    /\ checked = Some(1)
    /\ built_from = Some(1)
    /\ pc = "sleep_interval"
    /\ \E max \in 0..MaxMaxFailures, action \in FailureActions :
           failures = FailureTracker_new(max, action)
    /\ slept = [kind |-> "interval", secs |-> base_interval]
    /\ waited = <<>>
    /\ attempt = NoAttempt
    /\ exit_code = None
    /\ overflow_checks = FALSE

SpecReload == InitReloadSpec /\ [][NextReload]_vars

\* StoreBuilder::new() in a library compiled with any set of store features.
InitBuilderSpec ==
    /\ IdleStore /\ IdleSwap /\ IdleSched /\ IdleLoader /\ IdleServer /\ IdleReload
    /\ features \in SUBSET StoreFeatures
    /\ builder = StoreBuilder_new
    /\ builder_result = NotLoaded

SpecBuilder == InitBuilderSpec /\ [][NextBuilder]_vars

SpecSwap == InitSwapSpec /\ [][NextSwap]_vars

SpecSched == InitSchedSpec /\ [][NextSched]_vars

SpecLoader == InitLoaderSpec /\ [][NextLoader]_vars

(***************************************************************************)
(* Properties of the store variants, under SpecStore.                      *)
(***************************************************************************)
Variants == {"hashmap", "vec", "hybrid", "fullhash"}

\* E contains (uuid, L) with L <= mask.
HasEntryAtMost(es, uuid, mask) ==
    \E i \in 1..Len(es) : es[i][1] = uuid /\ es[i][2] <= mask

HasUuid(es, uuid) == \E i \in 1..Len(es) : es[i][1] = uuid

\* C1: for each of the four variants built from a duplicate-free entry list E,
\* is_visible(u, m) is true exactly when E holds (u, L) with L <= m; a UUID
\* that E does not hold is visible at no mask, 255 included, and at mask 0 only
\* level-0 entries are visible.
C1_IsVisibleIffLevelAtMostMask ==
    answer.op = "is_visible" =>
        \A v \in Variants, m \in Masks :
            /\ answer[v][m] = HasEntryAtMost(entries, answer.uuid, m)
            /\ ~HasUuid(entries, answer.uuid) => ~answer[v][U8_MAX]
            /\ answer[v][0] = (<<answer.uuid, 0>> \in {entries[i] : i \in 1..Len(entries)})

\* A three-entry list whose queried UUID sits at level 255: hidden at mask 254,
\* visible at mask 255, while another UUID of the list is at level 0.
C1_Witness ==
    /\ answer.op = "is_visible"
    /\ Len(entries) = 3
    /\ <<answer.uuid, U8_MAX>> \in {entries[i] : i \in 1..Len(entries)}
    /\ \E i \in 1..Len(entries) : entries[i][2] = 0
    /\ \A v \in Variants : answer[v][U8_MAX] /\ ~answer[v][U8_MAX - 1]

AllVisible(es, uuids, mask) ==
    \A i \in 1..Len(uuids) : HasEntryAtMost(es, uuids[i], mask)

\* C11: check_batch(B, m) returns the single boolean TRUE exactly when every
\* UUID of B is visible at m, for every variant; for the empty batch it
\* returns TRUE at every mask.
C11_CheckBatchReturnsAllVisible ==
    answer.op = "check_batch" =>
        \A v \in Variants, m \in Masks :
            /\ answer.returns = "bool"
            /\ answer[v][m] = AllVisible(entries, answer.uuids, m)

DuplicateFree(es) ==
    \A i, j \in 1..Len(es) : es[i][1] = es[j][1] => i = j

\* C12: for every variant, building from an entry list fails exactly when some
\* UUID occurs more than once in the list, whether the levels of its
\* occurrences agree or not; a duplicate-free list builds.
C12_BuildFailsIffDuplicateUuid ==
    built.done =>
        \A v \in Variants : built[v].ok = DuplicateFree(entries)

\* A list of three entries in which one UUID sits once at level 0 and once at a
\* level above 0, the third entry being another UUID: every constructor
\* refused it.
C12_Witness ==
    /\ built.done
    /\ Len(entries) = 3
    /\ \E i, j \in 1..Len(entries) :
           /\ entries[i][1] = entries[j][1]
           /\ entries[i][2] = 0 /\ entries[j][2] > 0
           /\ \A k \in 1..Len(entries) : k \notin {i, j} => entries[k][1] # entries[i][1]
    /\ \A v \in Variants : ~built[v].ok

\* C18: built from the same duplicate-free entry list, the four variants give
\* the same result for is_visible, get_visibility, check_batch, len, is_empty
\* and visibility_distribution, whatever the arguments.
C18_VariantsAnswerAlike ==
    answer.asked =>
        \A v \in Variants : answer[v] = answer.hashmap

\* get_visibility of a UUID stored at level 255 was asked of a three-entry
\* store that also holds a level-0 entry: every variant answered Some(255).
C18_Witness ==
    /\ answer.op = "get_visibility"
    /\ Len(entries) = 3
    /\ \E i \in 1..Len(entries) : entries[i][2] = 0
    /\ \A v \in Variants : answer[v] = Some(U8_MAX)

\* C19: for every variant and every duplicate-free entry list E, len() is the
\* number of entries of E and is_empty() is true exactly when that is 0.
C19_LenIsNumberOfEntries ==
    answer.op = "stats" =>
        \A v \in Variants :
            /\ answer[v].len = Len(entries)
            /\ answer[v].is_empty = (Len(entries) = 0)

\* The statistics of a three-entry store holding entries at level 0 and above.
C19_Witness ==
    /\ answer.op = "stats"
    /\ Len(entries) = 3
    /\ \E i, j \in 1..Len(entries) : entries[i][2] = 0 /\ entries[j][2] > 0
    /\ \A v \in Variants : answer[v].len = 3 /\ ~answer[v].is_empty

LevelsOf(es) == {es[i][2] : i \in 1..Len(es)}
CountAt(es, level) == Cardinality({i \in 1..Len(es) : es[i][2] = level})

RECURSIVE SumOver(_, _)
SumOver(f, keys) ==
    IF keys = {} THEN 0
    ELSE LET k == CHOOSE x \in keys : TRUE IN f[k] + SumOver(f, keys \ {k})

\* C20: for every variant, visibility_distribution() has a key exactly for the
\* levels that have an entry, maps each to the number of entries at that
\* level, holds no zero count, and its values add up to len().
C20_DistributionCountsEntriesPerLevel ==
    answer.op = "stats" =>
        \A v \in Variants :
            LET dist == answer[v].dist
            IN  /\ DOMAIN dist = LevelsOf(entries)
                /\ \A level \in DOMAIN dist :
                       dist[level] = CountAt(entries, level) /\ dist[level] > 0
                /\ SumOver(dist, DOMAIN dist) = answer[v].len

\* The statistics of a store with two entries at one level above 0, one entry
\* at level 255 and none at level 0.
C20_Witness ==
    /\ answer.op = "stats"
    /\ Len(entries) = 3
    /\ 0 \notin LevelsOf(entries)
    /\ \A v \in Variants :
           /\ DOMAIN answer[v].dist = {MaxLevel, U8_MAX}
           /\ answer[v].dist[MaxLevel] = 2

\* The UUID whose repeated occurrence comes earliest in input order.
FirstDuplicate(es) ==
    LET repeats == {j \in 1..Len(es) : \E i \in 1..(j - 1) : es[i][1] = es[j][1]}
    IN  es[CHOOSE j \in repeats : \A k \in repeats : j <= k][1]

\* C22: when a build fails because of duplicates, every variant reports the
\* first duplicate of the input, the UUID whose repeated occurrence comes
\* earliest in input order, also when several UUIDs are duplicated.
C22_FirstDuplicateReported ==
    (built.done /\ ~DuplicateFree(entries)) =>
        \A v \in Variants :
            /\ ~built[v].ok
            /\ built[v].dup = FirstDuplicate(entries)

\* C21: for a duplicate-free entry list, the stores built from any reordering
\* of the list answer is_visible, len and visibility_distribution exactly as
\* the stores built from the list in its first order, for each variant.
C21_BuildIsOrderIndependent ==
    first_answer.asked =>
        /\ answer.op = first_answer.op
        /\ \A v \in Variants :
               IF answer.op = "is_visible"
               THEN /\ answer.uuid = first_answer.uuid
                    /\ answer[v] = first_answer[v]
               ELSE /\ answer[v].len = first_answer[v].len
                    /\ answer[v].dist = first_answer[v].dist

\* Three entries were reordered into descending UUID order, the opposite of
\* the order VecStore and HybridAuthStore sort them into, and a UUID that is
\* visible under mask 0 was asked for again.
C21_Witness ==
    /\ first_answer.asked
    /\ answer.op = "is_visible"
    /\ Len(entries) = 3
    /\ entries[1][1] > entries[2][1] /\ entries[2][1] > entries[3][1]
    /\ \A v \in Variants : answer[v][0]

(***************************************************************************)
(* Properties of SwappableStore, under SpecSwap.                           *)
(***************************************************************************)
Finished(t) == tpc[t] = "reading" /\ call[t].done

\* C2: a read operation that runs while swaps are made returns what the
\* operation gives on one single store among those its cell held during the
\* call, never a mix of two; len() returns 0 only when such a store is empty.
C2_ReadSeesExactlyOneIndex ==
    \A t \in Readers :
        Finished(t) =>
            /\ \E i \in 1..Len(installed[t]) :
                   Returned(call[t]) = Delegate(call[t], installed[t][i])
            /\ (call[t].op = "len" /\ Returned(call[t]) = 0) =>
                   \E i \in 1..Len(installed[t]) :
                       HashMapStore_len(installed[t][i]) = 0

\* A two-UUID check_batch has been computed while a swap of a different store
\* waits for the write guard.
C2_Witness ==
    \E t \in Readers, w \in Swappers :
        /\ Finished(t)
        /\ call[t].op = "check_batch"
        /\ Len(call[t].uuids) = 2
        /\ tpc[w] = "swap_wait"
        /\ call[w].new_store # inner[handle[t]]

\* C3: a query started after swap(I') has returned, through the swapping handle
\* or any clone of it, is answered from I'.
C3_QueriesAfterSwapSeeNewIndex ==
    \A t \in Readers :
        Finished(t) => Returned(call[t]) = Delegate(call[t], call[t].latest)

\* The store was created with two entries; a reader's len() answered 0, from
\* the empty store that a swapper's clone swapped in before the query started.
C3_Witness ==
    \E t \in Readers :
        /\ Finished(t)
        /\ call[t].op = "len"
        /\ call[t].latest = build_store(<<>>).store
        /\ Returned(call[t]) = 0

\* C4: while a read operation is in progress its store stays the installed
\* one: no swap assigns over it (which would drop it) and no write guard is
\* held on its cell until the reader has released its guard.
C4_IndexNotDroppedWhileRead ==
    \A t \in Readers :
        tpc[t] = "reading" =>
            /\ installed[t] = <<inner[handle[t]]>>
            /\ writer[handle[t]] = {}

\* Every reader is inside a read, one of them has finished computing, and a
\* swap that was issued is still waiting for them.
C4_Witness ==
    /\ \A t \in Readers : tpc[t] = "reading"
    /\ \E t \in Readers : call[t].done
    /\ \E t \in Readers : ~call[t].done
    /\ \E w \in Swappers : tpc[w] = "swap_wait"

(***************************************************************************)
(* Properties of the reload scheduler, under SpecSched.                    *)
(***************************************************************************)
Failed == {"backoff", "panic", "shutdown", "clear"}
Succeeded == {"new", "unchanged"}

\* The step is a load attempt that ended in one of the outcomes of S.
LoadEnds(S) == pc = "loading" /\ attempt'.outcome \in S

\* min(5 * 2^(k-1), 300): 5 * 2^6 is already above 300.
ExpectedBackoff(k) == IF k >= 7 THEN 300 ELSE 5 * 2^(k - 1)

\* C5: a failed reload attempt on which the terminal policy does not fire
\* leaves the installed store and the stored metadata as they were, adds one to
\* the failure counter, and the scheduler sleeps the backoff to retry; the
\* process keeps running.
C5_FailedReloadKeepsStateAndRetries ==
    [][LoadEnds({"backoff", "panic"}) =>
          /\ store' = store
          /\ metadata' = metadata
          /\ failures'.consecutive = failures.consecutive + 1
          /\ pc' = "sleep_backoff"
          /\ exit_code' = None]_vars

\* C6: every successful check, new data or Unchanged, sets the failure counter
\* to 0 whatever it was, so the next failure is the first one: it is counted
\* from 0 and, when it backs off, backs off 5 seconds.
C6_SuccessResetsCounter ==
    [][/\ LoadEnds(Succeeded) => failures'.consecutive = 0
       /\ (attempt.outcome \in Succeeded /\ LoadEnds(Failed)) =>
              /\ attempt'.prev = 0
              /\ attempt'.outcome = "backoff" => slept'.secs = 5]_vars

\* An Unchanged check came after three or more failures in a row and left the
\* counter at 0.
C6_Witness ==
    /\ attempt.outcome = "unchanged"
    /\ attempt.prev >= 3
    /\ failures.consecutive = 0

\* C7: after k consecutive failures that end in a backoff, the delay record()
\* returned is min(5 * 2^(k-1), 300) seconds, for every k.
C7_BackoffIsCappedExponential ==
    attempt.outcome = "backoff" =>
        /\ slept.kind = "backoff"
        /\ slept.secs = ExpectedBackoff(failures.consecutive)

\* C8: every backoff the scheduler sleeps is at most 300 seconds.
C8_BackoffAtMostFiveMinutes ==
    slept.kind = "backoff" => slept.secs <= 300

\* The 64th failure in a row: 5 << 63 loses a bit, and the sleep is 300 s.
C8_Witness ==
    /\ pc = "sleep_backoff"
    /\ failures.consecutive = 64
    /\ slept = [kind |-> "backoff", secs |-> 300]

\* The N-th consecutive failure under Clear swaps in an empty store, resets the
\* counter and keeps the process running.
ClearsOnNthFailure ==
    (LoadEnds(Failed) /\ failures.action = "Clear" /\ failures.max > 0
        /\ attempt.streak + 1 = failures.max) =>
           /\ attempt'.outcome = "clear"
           /\ HashMapStore_len(store') = 0
           /\ failures'.consecutive = 0
           /\ exit_code' = None
           /\ pc' = "sleep_interval"

\* C9 as claimed: with max_failures = N > 0 and Clear, for every N >= 1, the
\* N-th consecutive failure swaps in an empty store and resets the counter,
\* and the failure after it backs off 5 seconds as failure k = 1.
C9_AsClaimed ==
    [][/\ ClearsOnNthFailure
       /\ (LoadEnds(Failed) /\ attempt.outcome = "clear") =>
              /\ attempt'.outcome = "backoff"
              /\ failures'.consecutive = 1
              /\ slept' = [kind |-> "backoff", secs |-> 5]]_vars

\* C9 amended: the failure after a Clear is counted from 0 again; for N >= 2 it
\* backs off 5 seconds as failure k = 1, and for N = 1 it is itself the N-th
\* failure, so the scheduler clears again without a backoff.
C9_ClearRestartsCount ==
    [][/\ ClearsOnNthFailure
       /\ (LoadEnds(Failed) /\ attempt.outcome = "clear") =>
              /\ attempt'.prev = 0
              /\ failures.max >= 2 =>
                     /\ attempt'.outcome = "backoff"
                     /\ failures'.consecutive = 1
                     /\ slept' = [kind |-> "backoff", secs |-> 5]
              /\ failures.max = 1 =>
                     /\ attempt'.outcome = "clear"
                     /\ HashMapStore_len(store') = 0
                     /\ failures'.consecutive = 0]_vars

\* Under Clear with N >= 2, a failure that followed a clear in the same run of
\* failures is sleeping its 5 second backoff, the store still empty.
C9_Witness ==
    /\ failures.action = "Clear"
    /\ failures.max >= 2
    /\ attempt.outcome = "backoff"
    /\ attempt.streak = failures.max + 1
    /\ failures.consecutive = 1
    /\ slept = [kind |-> "backoff", secs |-> 5]
    /\ HashMapStore_len(store) = 0

\* C10: with max_failures = N > 0 and Shutdown, the N-th consecutive failure
\* exits the process with a non-zero status and the store installed before the
\* failure still installed; the process exits on no other step.
C10_ShutdownOnNthFailure ==
    [][/\ (LoadEnds(Failed) /\ failures.action = "Shutdown" /\ failures.max > 0
              /\ attempt.streak + 1 = failures.max) =>
                 /\ pc' = "exited"
                 /\ exit_code' # None /\ exit_code' # Some(0)
                 /\ store' = store
       /\ (exit_code = None /\ exit_code' # None) =>
              /\ failures.action = "Shutdown" /\ failures.max > 0
              /\ pc = "loading"
              /\ attempt'.streak = failures.max
              /\ store' = store]_vars

\* The process has exited with status 1 on the third failure in a row, a
\* two-entry store still installed.
C10_Witness ==
    /\ pc = "exited"
    /\ exit_code = Some(1)
    /\ failures.max = 3
    /\ attempt.streak = 3
    /\ HashMapStore_len(store) = 2

\* C23: a load attempt that follows a failed attempt ending in a backoff
\* starts after the backoff delay alone, with no base interval slept on top of
\* it; one that follows a successful check (new data or Unchanged) or a Clear
\* starts after the full base interval.
C23_BackoffReplacesBaseInterval ==
    pc = "loading" =>
        /\ attempt.outcome = "backoff" =>
               /\ slept.kind = "backoff"
               /\ waited = <<slept>>
        /\ attempt.outcome \in Succeeded \cup {"clear"} =>
               waited = <<[kind |-> "interval", secs |-> base_interval]>>

\* The attempt after the second failure in a row starts after 10 seconds.
C23_Witness ==
    /\ pc = "loading"
    /\ attempt.outcome = "backoff"
    /\ failures.consecutive = 2
    /\ waited = <<[kind |-> "backoff", secs |-> 10]>>

TerminalPolicy == {"shutdown", "clear"}

\* C29: with max_failures = N > 0 the count of consecutive failures never
\* exceeds N and is below N whenever a load attempt is under way; the terminal
\* policy fires on exactly the failed attempts that raise the count to N, and
\* so never with max_failures = 0.
C29_CounterBoundedByMax ==
    [][/\ failures.max > 0 =>
              /\ failures.consecutive <= failures.max
              /\ failures'.consecutive <= failures'.max
              /\ pc = "loading" => failures.consecutive < failures.max
              /\ pc' = "loading" => failures'.consecutive < failures'.max
       /\ LoadEnds(Failed \cup Succeeded) =>
              (attempt'.outcome \in TerminalPolicy <=>
                  /\ attempt'.outcome \in Failed
                  /\ failures.max > 0
                  /\ failures.consecutive + 1 = failures.max)]_vars

\* With max_failures = 3 the scheduler is loading again after two failures in
\* a row, the count one below the limit.
C29_Witness ==
    /\ pc = "loading"
    /\ failures.max = 3
    /\ failures.consecutive = 2
    /\ attempt.outcome = "backoff"

\* C13: when the loader returns new data, the scheduler installs the returned
\* store and replaces the stored SourceMetadata by the returned metadata (for a
\* URL source, the ETag of that response); the next load is called with a
\* snapshot equal to the stored metadata.
C13_NewDataInstalledWithItsMetadata ==
    [][/\ LoadEnds({"new"}) =>
            /\ store' = attempt'.returned.store
            /\ metadata' = attempt'.returned.metadata
       /\ pc' = "loading" => old_metadata' = metadata']_vars

\* After a reload that returned new data with the ETag "v2", the next load is
\* under way with "v2" as its old metadata.
C13_Witness ==
    /\ pc = "loading"
    /\ attempt.outcome = "new"
    /\ attempt.returned.metadata = Meta("v2")
    /\ store = attempt.returned.store
    /\ metadata = Meta("v2") /\ old_metadata = Meta("v2")

\* C14: when the loader reports Unchanged the scheduler does not swap: the
\* installed store and the stored SourceMetadata stay exactly as they were.
C14_UnchangedLeavesStoreAndMetadata ==
    [][LoadEnds({"unchanged"}) => UNCHANGED <<store, metadata>>]_vars

\* An Unchanged check that followed a reload with the ETag "v2": the store of
\* that reload is still installed.
C14_Witness ==
    /\ attempt.outcome = "unchanged"
    /\ pc = "sleep_interval"
    /\ metadata = Meta("v2")
    /\ store # build_store(<<>>).store

(***************************************************************************)
(* Properties of the loader, under SpecLoader.                             *)
(***************************************************************************)
WellFormed(text) == \A i \in 1..Len(text) : text[i].kind = "entry"

UuidsOf(text) == {text[i].uuid : i \in 1..Len(text)}

\* The text holds well-formed rows only and no UUID twice.
Loadable(text) ==
    /\ WellFormed(text)
    /\ \A i, j \in 1..Len(text) : text[i].uuid = text[j].uuid => i = j

\* The UUID -> level mapping the rows of a loadable text spell out.
MappingOf(text) ==
    [u \in UuidsOf(text) |->
        (CHOOSE row \in {text[i] : i \in 1..Len(text)} : row.uuid = u).visibility_level]

\* The result is a new store holding the rows of text, with metadata m.
IsNewData(result, text, m) ==
    /\ result.ok
    /\ result.value # None
    /\ result.value[1].store.map = MappingOf(text)
    /\ result.value[1].metadata = m

IsUnchanged(result) == result.ok /\ result.value = None

\* What a header gives the metadata: its value when it is a string.
FromHeader(value) == IF value = Some(NotVisibleAscii) THEN None ELSE value

\* C15: for a URL source the request carries If-None-Match when the old
\* metadata has an ETag and If-Modified-Since when it has a Last-Modified
\* value; a 304 response yields Unchanged, a 2xx response yields the store
\* built from its body with metadata taken from its headers (an error when the
\* body cannot be read, parsed or built), and every other status yields an
\* error.
C15_UrlLoadFollowsStatus ==
    loader_call.op = "load_from_url" =>
        LET old == loader_call.old_metadata
            sent == loader_call.headers
            r == loader_call.response
        IN  /\ sent.if_none_match =
                   IF old # None /\ old[1].etag # None THEN old[1].etag ELSE None
            /\ sent.if_modified_since =
                   IF old # None /\ old[1].last_modified # None
                   THEN old[1].last_modified ELSE None
            /\ r.sent =>
                   IF r.status = 304 THEN IsUnchanged(loader_result)
                   ELSE IF r.status \in 200..299
                   THEN IF r.text_ok /\ Loadable(r.text)
                        THEN IsNewData(loader_result, r.text,
                                 [mtime |-> None, etag |-> FromHeader(r.etag),
                                  last_modified |-> FromHeader(r.last_modified)])
                        ELSE ~loader_result.ok
                   ELSE ~loader_result.ok /\ loader_result.error = "HttpError"

\* A conditional request carrying both headers was answered 304.
C15_Witness ==
    /\ loader_call.op = "load_from_url"
    /\ loader_call.headers = [if_none_match |-> Some("v1"),
                              if_modified_since |-> Some("d1")]
    /\ loader_call.response.sent
    /\ loader_call.response.status = 304
    /\ IsUnchanged(loader_result)

\* C16: for a file source the conditional reload returns Unchanged when the
\* old metadata has an mtime equal to or later than the file's, and otherwise
\* (later file mtime, old metadata empty or without mtime) rereads the file and
\* returns the rebuilt store with the file's mtime as metadata (an error when
\* the file cannot be read, parsed or built).
C16_FileReloadFollowsMtime ==
    (loader_call.op = "reload_if_changed" /\ loader_call.file.mtime # None) =>
        LET old == loader_call.old_metadata
            file == loader_call.file
        IN  IF old.mtime # None /\ old.mtime[1] >= file.mtime[1]
            THEN IsUnchanged(loader_result)
            ELSE IF file.readable /\ Loadable(file.text)
            THEN IsNewData(loader_result, file.text,
                     [mtime |-> file.mtime, etag |-> None, last_modified |-> None])
            ELSE ~loader_result.ok

\* The file's mtime equals the stored one and the reload answered Unchanged,
\* although the file holds rows.
C16_Witness ==
    /\ loader_call.op = "reload_if_changed"
    /\ loader_call.file.mtime # None
    /\ loader_call.old_metadata.mtime = loader_call.file.mtime
    /\ loader_call.file.readable /\ Len(loader_call.file.text) = 2
    /\ IsUnchanged(loader_result)

Present(m, field) == m[field] # None
BothPresent(old, new, field) == Present(old, field) /\ Present(new, field)
Fields == {"mtime", "etag", "last_modified"}

\* C17: has_changed(old, new) is true exactly when either side is all-empty,
\* or mtime is on both sides and the new one is later, or etag is on both sides
\* and differs, or last-modified is on both sides and differs, or no field is
\* on both sides; so also for metadata carrying several fields.
C17_HasChangedIsAnyDifferingPair ==
    loader_call.op = "has_changed" =>
        LET old == loader_call.old
            new == loader_call.new
        IN  loader_result =
              (\/ old = SourceMetadata_new
               \/ new = SourceMetadata_new
               \/ BothPresent(old, new, "mtime") /\ new.mtime[1] > old.mtime[1]
               \/ BothPresent(old, new, "etag") /\ new.etag # old.etag
               \/ /\ BothPresent(old, new, "last_modified")
                  /\ new.last_modified # old.last_modified
               \/ \A field \in Fields : ~BothPresent(old, new, field))

(***************************************************************************)
(* Properties of the server's threads and locks, under SpecServer.         *)
(***************************************************************************)
Rebuilding == spc[Scheduler] \in {"fetch", "parse", "build"}

\* C24: the scheduler holds no guard on the SwappableStore while it fetches,
\* parses or builds, so no reader waits for a rebuild; it holds the write
\* guard only inside swap, whose argument is by then a fully built store.
C24_NoWriteLockDuringRebuild ==
    /\ Rebuilding => store_guards.writer = {}
    /\ store_guards.writer # {} =>
           /\ store_guards.writer = {Scheduler}
           /\ spc[Scheduler] \in {"swap_locked", "swap_assigned"}
           /\ local[Scheduler].new_store \in ServerStores \cup {build_store(<<>>).store}

\* The scheduler is building the store of a second reload, the store of the
\* first one installed, while a handler holds a read guard.
C24_Witness ==
    /\ spc[Scheduler] = "build"
    /\ srv_inner = build_store(<<<<1, 1>>>>).store
    /\ \E t \in Handlers : spc[t] = "reading" /\ t \in store_guards.readers

\* C25: a stats response has total_uuids equal to the sum of the counts of
\* its visibility_distribution, whatever the scheduler swapped meanwhile.
C25_StatsResponseConsistent ==
    \A t \in Handlers :
        (spc[t] = "responded" /\ local[t].req = "stats") =>
            LET body == local[t].response
            IN  body.total_uuids =
                    SumOver(body.visibility_distribution,
                            DOMAIN body.visibility_distribution)

GuardsOf(t) ==
    {<<"store", kind>> : kind \in {k \in {"readers", "writer"} : t \in store_guards[k]}}
    \cup {<<"metadata", kind>> :
              kind \in {k \in {"readers", "writer"} : t \in metadata_guards[k]}}

\* The lock a thread is waiting for, and whether it would be granted now.
WaitsFor(t) ==
    CASE spc[t] \in {"read_wait", "swap_wait"} -> "store"
      [] spc[t] \in {"metadata_read_wait", "metadata_write_wait"} -> "metadata"
      [] OTHER -> "none"

Grantable(t) ==
    CASE spc[t] = "read_wait" -> store_guards.writer = {}
      [] spc[t] = "swap_wait" -> store_guards = NoGuards
      [] spc[t] = "metadata_read_wait" -> metadata_guards.writer = {}
      [] spc[t] = "metadata_write_wait" -> metadata_guards = NoGuards
      [] OTHER -> TRUE

HoldersOf(lock) ==
    IF lock = "store" THEN store_guards.readers \cup store_guards.writer
    ELSE metadata_guards.readers \cup metadata_guards.writer

\* C30: no interleaving of handlers and scheduler deadlocks.  A handler holds
\* one read guard on the store exactly while it reads and no other guard; the
\* scheduler never holds the store's write guard together with a guard on the
\* metadata; no thread waits for a lock while it holds a guard, so a thread
\* that waits for a lock either gets it now or waits for a holder that runs.
C30_NoDeadlock ==
    /\ \A t \in Handlers :
           GuardsOf(t) = IF spc[t] = "reading" THEN {<<"store", "readers">>} ELSE {}
    /\ ~(/\ <<"store", "writer">> \in GuardsOf(Scheduler)
          /\ GuardsOf(Scheduler) \ {<<"store", "writer">>} # {})
    /\ \A t \in ServerThreads :
           WaitsFor(t) # "none" =>
               /\ GuardsOf(t) = {}
               /\ \/ Grantable(t)
                  \/ \E h \in HoldersOf(WaitsFor(t)) : WaitsFor(h) = "none"

\* The scheduler holds the store's write guard inside swap while both
\* handlers wait for their read guard.
C30_Witness ==
    /\ spc[Scheduler] = "swap_locked"
    /\ store_guards.writer = {Scheduler}
    /\ \A t \in Handlers : spc[t] = "read_wait"


(***************************************************************************)
(* Properties of the scheduler reloading from a file, under SpecReload.    *)
(***************************************************************************)
\* The last load attempt succeeded and read the mtime the file still has: the
\* file is there and has not been modified since.
CheckedAsItIs ==
    /\ pc = "sleep_interval"
    /\ attempt.outcome \in Succeeded
    /\ source_file.available
    /\ checked = Some(source_file.mtime)

\* The store an unconditional load of the file as it is would build.
CurrentContent == load_from_source_reads(OnDisk(source_file), OnDisk(source_file))

\* C26: under Clear, once a load attempt succeeds on the source as it now is,
\* the store holds an Index built from the source's current content, also
\* when the scheduler cleared the store before and the source came back with
\* the content and mtime it had.
C26_StoreRecoversAfterClear ==
    (failures.action = "Clear" /\ CheckedAsItIs /\ CurrentContent.ok) =>
        store = CurrentContent.value.store


\* C27: the loader reads the file's mtime before its content, so the stored
\* SourceMetadata is never newer than the file version the installed store
\* was parsed from; a version with a later mtime than that one, also one
\* written between the two reads of a reload, is reported as changed by the
\* next check, and so is never missed for good.
C27_MetadataNotNewerThanContent ==
    built_from # None =>
        /\ metadata.mtime # None
        /\ metadata.mtime[1] <= built_from[1]
        /\ (source_file.available /\ source_file.mtime > built_from[1]) =>
               has_changed(metadata, SourceMetadata_from_file(OnDisk(source_file)).value)

\* A reload read mtime 2, the file was rewritten before the reload read its
\* content, and the store now installed was parsed from version 3 while the
\* stored metadata says 2.
C27_Witness ==
    /\ pc = "sleep_interval"
    /\ attempt.outcome = "new"
    /\ metadata.mtime = Some(2)
    /\ built_from = Some(3)
    /\ checked = Some(2)


(***************************************************************************)
(* Properties of StoreBuilder, under SpecBuilder.                          *)
(***************************************************************************)
VariantOf(algorithm) ==
    CASE algorithm = "HashMap" -> "hashmap"
      [] algorithm = "Vec" -> "vec"
      [] algorithm = "Hybrid" -> "hybrid"
      [] algorithm = "FullHash" -> "fullhash"

\* C28: a store that StoreBuilder::load_from_csv returns is of the variant
\* of the configured StoreAlgorithm, whatever type ActiveStore is compiled to.
C28_BuilderBuildsConfiguredVariant ==
    (builder_result.done /\ builder_result.result.ok) =>
        builder_result.result.value.variant = VariantOf(builder.algorithm)


====
